---- MODULE Spec2Model ----
(***************************************************************************)
(* A model of the synthetic energy-market generator (synthetic_data_pkg):  *)
(* the distribution primitives (dists.py), the per-variable regime         *)
(* schedule (regimes.py), the schedule planner and scenario builder        *)
(* (scenario.py, utils.py), the supply and demand curves (supply.py,       *)
(* demand.py) and the equilibrium solver and simulation loop (simulate.py).*)
(*                                                                         *)
(* Numbers.  Prices and quantities are integers (fixed-point units).       *)
(* Availabilities and efficiencies are percentages (100 = 1.0).  A         *)
(* division of the source is an integer division rounding down; the        *)
(* tolerance factors 0.999, 1.001, 0.9, 1.1, 0.8 and the midpoint /2 are   *)
(* kept exact by cross-multiplication, and the pair returned by            *)
(* find_equilibrium is held in tenths of a unit (q_star, p_star times 10). *)
(*                                                                         *)
(* Randomness.  A generator is a stream of raw draws 0..RawMax; a          *)
(* distribution maps a raw draw to its value, so a seed fixes every value. *)
(***************************************************************************)
EXTENDS Integers, Sequences, FiniteSets, TLC

VARIABLES
    \* ---- find_equilibrium(ts, demand, supply, vals, price_grid)
    demand,       \* DemandCurve.cfg with the hour's seasonality multiplier
    vals,         \* the hour's value snapshot: driver name -> value
    price_grid,   \* ordered candidate prices
    eq,           \* outcome of the call: none yet, a returned pair, or a raise
    \* ---- dists: iid_sample, stateful_step, empirical_at
    spec,         \* the distribution spec dict handed to the primitive
    out,          \* the last call of a primitive and its outcome
    \* ---- shared by the primitives, the schedules and the builder
    rng,          \* numpy Generator: the seed's stream and the position in it
    series_map,   \* empirical series: name -> (hour -> sample)
    \* ---- scenario.build_schedules and RegimeSchedule
    config,       \* the run's configuration (horizon, seed, planner, variables)
    schedules,    \* variable name -> RegimeSchedule object
    built,        \* outcome of build_schedules: none yet, returned, or a raise
    ret,          \* the last value_at call and what it returned
    \* ---- simulate_timeseries, run after build_schedules, twice
    supply,       \* SupplyCurve: its wind weather model (generator, cache)
    hour,         \* the loop counter h
    rows,         \* the records appended so far
    status,       \* idle | running | done | raised
    run,          \* 1 for the first run, 2 for the re-run
    first_run     \* outcome and records of the first run

eqVars == <<demand, vals, price_grid, eq>>

distVars == <<spec, out>>

schedVars == <<config, schedules, built, ret>>

simVars == <<supply, hour, rows, status, run, first_run>>

vars == <<demand, vals, price_grid, eq, spec, out, rng, series_map,
          config, schedules, built, ret, supply, hour, rows, status, run, first_run>>

-----------------------------------------------------------------------------
(* Arithmetic helpers *)

Max(a, b) == IF a >= b THEN a ELSE b

Min(a, b) == IF a <= b THEN a ELSE b

\* dict.get(key, default)
Get(d, k, dflt) == IF k \in DOMAIN d THEN d[k] ELSE dflt

\* float("inf") of _mc_bounds and of _clamp: larger than every number of the model
Inf == 1000000

\* dict[key] = value
Put(d, k, x) == [j \in DOMAIN d \cup {k} |-> IF j = k THEN x ELSE d[j]]

\* the value of a variable that the specification at hand does not use
Unused == "unused"

EqUnused == demand = Unused /\ vals = Unused /\ price_grid = Unused /\ eq = Unused

DistUnused == spec = Unused /\ out = Unused

SchedUnused ==
    config = Unused /\ schedules = Unused /\ built = Unused /\ ret = Unused

SimUnused ==
    /\ supply = Unused /\ hour = Unused /\ rows = Unused
    /\ status = Unused /\ run = Unused /\ first_run = Unused

-----------------------------------------------------------------------------
(* utils.linear_ramp *)

linear_ramp(price, p_low, p_high, cap) ==
    IF p_low = Inf \/ p_high = Inf \/ cap <= 0 THEN 0
    ELSE IF price <= p_low THEN 0
    ELSE IF price >= p_high THEN cap
    ELSE (cap * (price - p_low)) \div (p_high - p_low)

-----------------------------------------------------------------------------
(* supply.SupplyCurve, availability read from vals (direct mode; in        *)
(* weather mode the simulation loop writes the hour's cached weather       *)
(* values into vals before the solve)                                      *)

\* A faulty variant of _mc_bounds: the quotient is inverted, the efficiency
\* divided by the fuel price (four efficiency units to one price unit).
_mc_bounds_inverted(fuel_price, eta_lb, eta_ub) ==
    IF eta_lb <= 0 \/ eta_ub <= 0 THEN <<Inf, Inf>>
    ELSE <<(eta_lb * 4) \div (fuel_price * 100), (eta_ub * 4) \div (fuel_price * 100)>>

_mc_bounds(fuel_price, eta_lb, eta_ub) ==
    IF eta_lb <= 0 \/ eta_ub <= 0 THEN <<Inf, Inf>>
    ELSE <<(fuel_price * 100) \div eta_ub, (fuel_price * 100) \div eta_lb>>

_wind_output(v) ==
    LET cap == Get(v, "cap.wind", 0)
    IN  IF cap <= 0 THEN 0 ELSE (cap * Get(v, "avail.wind", 0)) \div 100

_solar_output(v) ==
    LET cap == Get(v, "cap.solar", 0)
    IN  IF cap <= 0 THEN 0 ELSE (cap * Get(v, "avail.solar", 0)) \div 100

_nuclear_output(v) ==
    (Get(v, "cap.nuclear", 0) * Get(v, "avail.nuclear", 0)) \div 100

\* A faulty variant of _thermal_output: the ramp ends at the installed
\* capacity, the availability is left out.
_thermal_output_installed(price, v, tech) ==
    LET cap == Get(v, "cap." \o tech, 0)
        mc  == _mc_bounds(v["fuel." \o tech],
                          Get(v, "eta_lb." \o tech, 0),
                          Get(v, "eta_ub." \o tech, 0))
    IN  IF cap <= 0 THEN 0 ELSE linear_ramp(price, mc[1], mc[2], cap)

_thermal_output(price, v, tech) ==
    LET cap == (Get(v, "cap." \o tech, 0) * Get(v, "avail." \o tech, 0)) \div 100
        mc  == _mc_bounds(v["fuel." \o tech],
                          Get(v, "eta_lb." \o tech, 0),
                          Get(v, "eta_ub." \o tech, 0))
    IN  IF cap <= 0 THEN 0 ELSE linear_ramp(price, mc[1], mc[2], cap)

_renewable_output(price, v, tech, base_output) ==
    IF base_output <= 0 THEN 0
    ELSE linear_ramp(price,
                     Get(v, "bid." \o tech \o ".min", -200),
                     Get(v, "bid." \o tech \o ".max", -50),
                     base_output)

\* the breakdown by technology
supply_breakdown(price, v) ==
    [wind    |-> _renewable_output(price, v, "wind", _wind_output(v)),
     solar   |-> _renewable_output(price, v, "solar", _solar_output(v)),
     nuclear |-> _renewable_output(price, v, "nuclear", _nuclear_output(v)),
     coal    |-> _thermal_output(price, v, "coal"),
     gas     |-> _thermal_output(price, v, "gas")]

\* the total: sum(br.values())
supply_at(price, v) ==
    LET br == supply_breakdown(price, v)
    IN  br.wind + br.solar + br.nuclear + br.coal + br.gas

\* curve_for_time: the total at every grid price
curve_for_time(v, grid) == [i \in 1..Len(grid) |-> supply_at(grid[i], v)]

\* supply_price_at_quantity at the quantity q10/10, as a fraction <<num, den>>
\* with den > 0: the interpolated price is num/den
supply_price_at_quantity(q10, Q, grid) ==
    LET idx == Cardinality({i \in 1..Len(grid) : 10 * Q[i] < q10})
    IN  IF idx = 0 THEN <<grid[1], 1>>
        ELSE IF idx >= Len(grid) THEN <<grid[Len(grid)], 1>>
        ELSE LET q0 == Q[idx]
                 q1 == Q[idx + 1]
                 p0 == grid[idx]
                 p1 == grid[idx + 1]
             IN  IF q1 = q0 THEN <<p1, 1>>
                 ELSE <<p0 * (10 * q1 - q10) + p1 * (q10 - 10 * q0),
                        10 * (q1 - q0)>>

-----------------------------------------------------------------------------
(* demand.DemandCurve.  d.mult is the hour's product of the daily and the  *)
(* annual multiplier, in percent (both are floored at 0 by the source)     *)

price_intercept(d) == (d.base_intercept * d.mult) \div 100

q_at_price(p, d) ==
    IF d.inelastic THEN Max(0, price_intercept(d))
    ELSE Max(0, (price_intercept(d) - p) \div (0 - d.slope))

\* p_at_quantity at the quantity q10/10, times 10 (elastic demand)
p_at_quantity10(q10, d) == 10 * price_intercept(d) + d.slope * q10

-----------------------------------------------------------------------------
(* scipy.optimize.brentq(f, a, b, maxiter=300) on the lattice a..b.        *)
(* F[x] has the sign of f(x).  No sign change over the bracket raises      *)
(* ValueError; a zero at an end is returned at once; otherwise the         *)
(* iteration returns a point where f is zero or changes sign, or raises    *)
(* RuntimeError when it has not converged within maxiter.                  *)

Crossings(F, a, b) ==
    LET zeros == {x \in a..b : F[x] = 0}
    IN  IF zeros # {} THEN zeros
        ELSE {x \in a..(b - 1) : F[x] < 0 /\ F[x + 1] > 0}
             \cup {x \in a..(b - 1) : F[x] > 0 /\ F[x + 1] < 0}

brentq(F, a, b) ==
    IF F[a] * F[b] > 0 THEN {[ok |-> FALSE, exc |-> "ValueError", x |-> 0]}
    ELSE IF F[a] = 0 THEN {[ok |-> TRUE, exc |-> "none", x |-> a]}
    ELSE IF F[b] = 0 THEN {[ok |-> TRUE, exc |-> "none", x |-> b]}
    ELSE {[ok |-> TRUE, exc |-> "none", x |-> x] : x \in Crossings(F, a, b)}
         \cup {[ok |-> FALSE, exc |-> "RuntimeError", x |-> 0]}

-----------------------------------------------------------------------------
(* simulate.find_equilibrium: the set of outcomes of one call.  An outcome *)
(* is a returned pair (q_star, p_star, in tenths) tagged with the return   *)
(* path, or a raised exception.                                            *)

Return(path, q10, p10) ==
    [kind |-> "return", path |-> path, q_star |-> q10, p_star |-> p10,
     exc |-> "none"]

Raise(path, exc) ==
    [kind |-> "raise", path |-> path, q_star |-> 0, p_star |-> 0, exc |-> exc]

\* A faulty variant of inelastic_result: the cleared quantity is read off the
\* supply curve at the price found, not taken from the fixed demand.
inelastic_result_from_supply(r, q_demand, v, grid) ==
    LET p_min == grid[1]
        p_max == grid[Len(grid)]
        q_supply_at_min == supply_at(p_min, v)
        q_supply_at_max == supply_at(p_max, v)
    IN  IF r.ok THEN Return("inelastic_root", 10 * supply_at(r.x, v), 10 * r.x)
        ELSE IF r.exc = "ValueError" THEN
            IF q_demand <= q_supply_at_min
            THEN Return("inelastic_fallback_floor", 10 * q_supply_at_min, 10 * p_min)
            ELSE Return("inelastic_fallback_ceiling",
                        10 * q_supply_at_max, 10 * p_max)
        ELSE Raise("inelastic_root", r.exc)

\* lines 57-68: the pair returned for the root-finder's outcome r; only
\* ValueError is caught
inelastic_result(r, q_demand, v, grid) ==
    LET p_min == grid[1]
        p_max == grid[Len(grid)]
        q_supply_at_min == supply_at(p_min, v)
        q_supply_at_max == supply_at(p_max, v)
    IN  IF r.ok THEN Return("inelastic_root", 10 * q_demand, 10 * r.x)
        ELSE IF r.exc = "ValueError" THEN
            IF q_demand <= q_supply_at_min
            THEN Return("inelastic_fallback_floor", 10 * q_demand, 10 * p_min)
            ELSE Return("inelastic_fallback_ceiling",
                        10 * q_supply_at_max, 10 * p_max)
        ELSE Raise("inelastic_root", r.exc)

find_equilibrium_inelastic(d, v, grid) ==
    LET p_min    == grid[1]
        p_max    == grid[Len(grid)]
        q_upper  == supply_at(p_max, v)
        q_demand == q_at_price(0, d)
        f_inelastic == [p \in p_min..p_max |-> supply_at(p, v) - q_demand]
        q_supply_at_max == supply_at(p_max, v)
    IN  IF q_demand > q_upper
        THEN {Return("inelastic_clip", 10 * q_supply_at_max, 10 * p_max)}
        ELSE {inelastic_result(r, q_demand, v, grid) :
                r \in brentq(f_inelastic, p_min, p_max)}

\* A faulty variant of elastic_boundary: the ceiling is checked before the
\* floor.
elastic_boundary_ceiling_first(d, v, grid) ==
    LET p_min == grid[1]
        p_max == grid[Len(grid)]
        q_demand_at_min == q_at_price(p_min, d)
        q_supply_at_min == supply_at(p_min, v)
        q_demand_at_max == q_at_price(p_max, d)
        q_supply_at_max == supply_at(p_max, v)
    IN  IF 1000 * q_demand_at_max >= 1001 * q_supply_at_max
        THEN {Return("ceiling_clip", 10 * q_supply_at_max, 10 * p_max)}
        ELSE IF 1000 * q_supply_at_min >= 999 * q_demand_at_min
        THEN {Return("floor_clip", 10 * q_demand_at_min, 10 * p_min)}
        ELSE {}

\* lines 72-88: the boundary checks; the clipped pair, or nothing when
\* neither boundary condition holds
elastic_boundary(d, v, grid) ==
    LET p_min == grid[1]
        p_max == grid[Len(grid)]
        q_demand_at_min == q_at_price(p_min, d)
        q_supply_at_min == supply_at(p_min, v)
        q_demand_at_max == q_at_price(p_max, d)
        q_supply_at_max == supply_at(p_max, v)
    IN  IF 1000 * q_supply_at_min >= 999 * q_demand_at_min
        THEN {Return("floor_clip", 10 * q_demand_at_min, 10 * p_min)}
        ELSE IF 1000 * q_demand_at_max >= 1001 * q_supply_at_max
        THEN {Return("ceiling_clip", 10 * q_supply_at_max, 10 * p_max)}
        ELSE {}

\* lines 107-116: the pair returned for the root-finder's outcome r; both
\* ValueError and RuntimeError are caught
elastic_result(r, d, v, grid) ==
    LET p_min == grid[1]
        p_max == grid[Len(grid)]
        q_demand_at_min == q_at_price(p_min, d)
        q_demand_at_max == q_at_price(p_max, d)
        q_supply_at_max == supply_at(p_max, v)
    IN  IF r.ok THEN Return("elastic_root", r.x, p_at_quantity10(r.x, d))
        ELSE IF 10 * q_demand_at_max > 8 * q_supply_at_max
        THEN Return("elastic_fallback_ceiling", 10 * q_supply_at_max, 10 * p_max)
        ELSE Return("elastic_fallback_floor", 10 * q_demand_at_min, 10 * p_min)

find_equilibrium_elastic(d, v, grid) ==
    LET p_min == grid[1]
        p_max == grid[Len(grid)]
        q_demand_at_min == q_at_price(p_min, d)
        q_supply_at_min == supply_at(p_min, v)
        q_demand_at_max == q_at_price(p_max, d)
        q_supply_at_max == supply_at(p_max, v)
        Q == curve_for_time(v, grid)
        \* the sign of f(q) = supply_price_at_quantity(q) - p_at_quantity(q)
        \* the bracket, in tenths
        q_min == Max(0, 9 * Min(q_supply_at_min, q_demand_at_min))
        q_max == 11 * Min(q_supply_at_max, q_demand_at_max)
        f == [q10 \in q_min..q_max |->
                LET ps == supply_price_at_quantity(q10, Q, grid)
                IN  10 * ps[1] - p_at_quantity10(q10, d) * ps[2]]
        clipped == elastic_boundary(d, v, grid)
    IN  IF clipped # {} THEN clipped
        ELSE IF q_max <= q_min
        THEN LET q_star == 5 * (q_supply_at_max + q_demand_at_max)
             IN  {Return("empty_bracket", q_star, p_at_quantity10(q_star, d))}
        ELSE {elastic_result(r, d, v, grid) : r \in brentq(f, q_min, q_max)}

find_equilibrium(d, v, grid) ==
    IF d.inelastic THEN find_equilibrium_inelastic(d, v, grid)
    ELSE find_equilibrium_elastic(d, v, grid)

-----------------------------------------------------------------------------
(* numpy.random.Generator *)

\* a raw draw is one of 0..RawMax
RawMax == 2
\* a generator's stream repeats after StreamLen raw draws
StreamLen == 2

\* the streams a seed can select: digit i of the seed in base RawMax + 1 is
\* the i-th raw draw
RECURSIVE Digits(_, _)
Digits(n, len) ==
    IF len = 0 THEN <<>>
    ELSE <<n % (RawMax + 1)>> \o Digits(n \div (RawMax + 1), len - 1)

Seeds == 0..((RawMax + 1) ^ StreamLen - 1)

\* A faulty variant of default_rng: the generator of a second run is not
\* the one that the seed gave the first run.
default_rng_unseeded(seed) ==
    [stream |-> Digits((IF run = 2 THEN seed + 1 ELSE seed)
                            % ((RawMax + 1) ^ StreamLen), StreamLen),
     pos |-> 0]

\* np.random.default_rng(seed): the seed alone fixes the stream, read from
\* its beginning
default_rng(seed) == [stream |-> Digits(seed, StreamLen), pos |-> 0]

\* the k-th raw draw from now (k = 0 is the next one)
raw(g, k) == g.stream[((g.pos + k) % Len(g.stream)) + 1]

\* the generator after n draws
advance(g, n) == [g EXCEPT !.pos = (@ + n) % Len(g.stream)]

\* Generator.normal(loc, scale): loc + scale * z, z the standard deviate of
\* the raw draw
standard_normal(u) == u - (RawMax \div 2)

normal(u, loc, scale) == loc + scale * standard_normal(u)

\* Generator.uniform(low, high) on [low, high)
uniform(u, low, high) == low + ((high - low) * u) \div (RawMax + 1)

\* Generator.lognormal(mean, sigma) = exp(normal), rounded down to the lattice
lognormal(u, mean, sigma) ==
    LET n == normal(u, mean, sigma) IN IF n < 0 THEN 0 ELSE 2 ^ n

\* Generator.beta(a, b), a fraction of [0, 1] in percent
beta(u) == (100 * u) \div RawMax

-----------------------------------------------------------------------------
(* utils._clamp and dists: iid_sample, stateful_step, empirical_at *)

\* float("nan"): the sample of a padded lookup with nothing at or before the
\* hour.  Arithmetic on it gives NaN and np.clip leaves it as it is; it
\* compares below every bound of the model.
NaN == -999999

\* Python None as a previous value or a remembered timestamp
None == -888888

\* no bounds: `spec.get("bounds")` is None
NoBounds == <<>>

_clamp(x, bounds) ==
    IF DOMAIN bounds = {} THEN x
    ELSE IF x = NaN THEN NaN
    ELSE Min(Max(x, Get(bounds, "low", -Inf)), Get(bounds, "high", Inf))

\* str.lower() on the spellings of a kind
lower(k) ==
    CASE k = "AR1" -> "ar1"
      [] k = "Const" -> "const"
      [] k = "LINEAR" -> "linear"
      [] OTHER -> k

\* outcome of a primitive: the value, the generator and the spec dict after it
DistReturn(v, g, s) ==
    [kind |-> "return", v |-> v, rng |-> g, spec |-> s, exc |-> "none"]

DistRaise(exc, g, s) ==
    [kind |-> "raise", v |-> 0, rng |-> g, spec |-> s, exc |-> exc]

\* the rejection loop of truncnormal
TruncAttempts == 1000

truncnormal(g, s, b) ==
    LET x(i) == normal(raw(g, i), s.mu, s.sigma)
        hits == {i \in 0..(TruncAttempts - 1) : s.low <= x(i) /\ x(i) <= s.high}
    IN  IF hits # {}
        THEN LET i == CHOOSE h \in hits : \A j \in hits : h <= j
             IN  DistReturn(_clamp(x(i), b), advance(g, i + 1), s)
        ELSE DistReturn(_clamp(Min(Max(x(TruncAttempts - 1), s.low), s.high), b),
                        advance(g, TruncAttempts), s)

iid_sample(g, s) ==
    LET k == lower(s.kind)
        b == Get(s, "bounds", NoBounds)
        u == raw(g, 0)
    IN  CASE k = "const" -> DistReturn(_clamp(s.v, b), g, s)
          [] k = "uniform" ->
               DistReturn(_clamp(uniform(u, Get(s, "min", 0), Get(s, "max", 1)), b),
                          advance(g, 1), s)
          [] k = "normal" ->
               DistReturn(_clamp(normal(u, s.mu, s.sigma), b), advance(g, 1), s)
          [] k = "lognormal" ->
               DistReturn(_clamp(lognormal(u, s.mu, s.sigma), b), advance(g, 1), s)
          [] k = "beta" ->
               LET lo == Get(s, "low", 0)
                   hi == Get(s, "high", 1)
               IN  DistReturn(_clamp(lo + (beta(u) * (hi - lo)) \div 100, b),
                              advance(g, 1), s)
          [] k = "truncnormal" -> truncnormal(g, s, b)
          [] OTHER -> DistRaise("ValueError", g, s)

\* phi is a percentage (90 = 0.9)
stateful_step(g, prev, s) ==
    LET k == lower(s.kind)
        b == Get(s, "bounds", NoBounds)
    IN  CASE k = "ar1" ->
               LET mu == s.mu
                   sigma == Get(s, "sigma", 1)
                   phi == Get(s, "phi", 90)
                   xprev == IF prev = None THEN mu ELSE prev
                   eps == normal(raw(g, 0), 0, sigma)
               IN  DistReturn(_clamp(mu + (phi * (xprev - mu)) \div 100 + eps, b),
                              advance(g, 1), s)
          [] k = "rw" ->
               LET drift == Get(s, "drift", 0)
                   sigma == Get(s, "sigma", 1)
                   start == Get(s, "start", 0)
                   xprev == IF prev = None THEN start ELSE prev
                   eps == normal(raw(g, 0), 0, sigma)
               IN  DistReturn(_clamp(xprev + drift + eps, b), advance(g, 1), s)
          [] k = "linear" ->
               LET start == Get(s, "start", 0)
                   slope == Get(s, "slope", 0)
                   step == Get(s, "_step", 0) + 1
               IN  IF prev = None
                   THEN DistReturn(_clamp(start, b), g, Put(s, "_step", 0))
                   ELSE DistReturn(_clamp(start + slope * step, b), g,
                                   Put(s, "_step", step))
          [] OTHER -> DistRaise("ValueError", g, s)

\* Series.asfreq("h", method="pad") then reindex([t], method="pad"): the
\* latest sample at or before hour t, NaN when there is none
pad(series, t) ==
    LET prior == {h \in DOMAIN series : h <= t}
    IN  IF prior = {} THEN NaN
        ELSE series[CHOOSE h \in prior : \A j \in prior : j <= h]

empirical_at(smap, ts, g, s) ==
    IF "name" \notin DOMAIN s \/ s.name \notin DOMAIN smap
    THEN DistRaise("KeyError", g, s)
    ELSE LET series == smap[s.name]
             transform == Get(s, "transform", "level")
             val == pad(series, ts)
             prev == pad(series, ts - 1)
             b == Get(s, "bounds", NoBounds)
         IN  CASE transform = "level" -> DistReturn(_clamp(val, b), g, s)
               [] transform = "pct_change" ->
                    DistReturn(_clamp(IF prev = 0 THEN 0
                                      ELSE IF val = NaN \/ prev = NaN THEN NaN
                                      ELSE (val \div prev) - 1, b), g, s)
               [] transform = "diff" ->
                    DistReturn(_clamp(IF val = NaN \/ prev = NaN THEN NaN
                                      ELSE val - prev, b), g, s)
               [] OTHER -> DistRaise("ValueError", g, s)

-----------------------------------------------------------------------------
(* regimes.RegimeSchedule.__init__ *)

\* Timestamps are hours counted from start_ts.  A day has HoursPerDay hourly
\* steps (24 in the source); the default transition of one day (24 hours in
\* the source) is HoursPerDay hours.
HoursPerDay == 2

RECURSIVE SumSeq(_)
SumSeq(s) == IF s = <<>> THEN 0 ELSE s[Len(s)] + SumSeq(SubSeq(s, 1, Len(s) - 1))

\* seq * k
RECURSIVE Tile(_, _)
Tile(s, k) == IF k <= 0 THEN <<>> ELSE s \o Tile(s, k - 1)

\* labs.extend([seg["name"]] * (seg["days"] * 24)) over the segments; a list
\* times a negative number is empty
RECURSIVE expand_labels(_)
expand_labels(segments) ==
    IF segments = <<>> THEN <<>>
    ELSE LET seg == segments[Len(segments)]
         IN  expand_labels(SubSeq(segments, 1, Len(segments) - 1))
             \o [j \in 1..(seg.days * HoursPerDay) |-> seg.name]

\* The constructor: date_range rejects a negative number of periods and
\* pd.Series rejects labels whose length differs from the index.
RegimeSchedule(varname, segments) ==
    LET hours == SumSeq([i \in 1..Len(segments) |-> segments[i].days]) * HoursPerDay
        labs == expand_labels(segments)
    IN  IF hours < 0 \/ Len(labs) # hours
        THEN [kind |-> "raise", exc |-> "ValueError"]
        ELSE [kind |-> "return", exc |-> "none",
              obj |-> [varname |-> varname,
                       segments |-> segments,
                       labels |-> labs,
                       _last_ts |-> None,
                       _last_value |-> None,
                       _last_seg_idx |-> None,
                       _step_counter |-> 0]]

-----------------------------------------------------------------------------
(* regimes.RegimeSchedule: _blend and value_at *)

\* index.get_loc of the first and of the last hour labelled `name`
first_hour(sch, name) ==
    (CHOOSE t \in 1..Len(sch.labels) :
        sch.labels[t] = name /\ \A u \in 1..(t - 1) : sch.labels[u] # name) - 1

last_hour(sch, name) ==
    (CHOOSE t \in 1..Len(sch.labels) :
        sch.labels[t] = name /\ \A u \in (t + 1)..Len(sch.labels) : sch.labels[u] # name)
    - 1

\* next(i for i, s in enumerate(segments) if s["name"] == seg_name)
segment_named(sch, seg_name) ==
    CHOOSE i \in 1..Len(sch.segments) :
        /\ sch.segments[i].name = seg_name
        /\ \A j \in 1..(i - 1) : sch.segments[j].name # seg_name

\* The weights are fractions of the transition: w_curr = curr / th and
\* w_next = next / th; next_idx = None when the hour is not blended.
no_blend == [curr |-> 1, next |-> 0, th |-> 1, next_idx |-> None]

blend_weights(hours_to_end, th, seg_idx) ==
    IF 0 <= hours_to_end /\ hours_to_end < th
    THEN [curr |-> hours_to_end, next |-> th - hours_to_end, th |-> th,
          next_idx |-> seg_idx + 1]
    ELSE no_blend

_blend(sch, ts, seg_idx) ==
    IF Get(sch.segments[seg_idx], "transition_hours", 0) <= 0
       \/ seg_idx >= Len(sch.segments)
    THEN no_blend
    ELSE blend_weights(last_hour(sch, sch.segments[seg_idx].name) - ts,
                       sch.segments[seg_idx].transition_hours, seg_idx)

\* steps since the last tick
steps_since(sch, ts) ==
    IF sch._last_ts = None THEN 1 ELSE Max(1, ts - sch._last_ts)

\* the state is reset when the regime changes
reset_on_change(sch, seg_idx) ==
    IF sch._last_seg_idx # None /\ seg_idx # sch._last_seg_idx
    THEN [sch EXCEPT !._last_value = None, !._step_counter = 0]
    ELSE sch

BlendKeys == {"mu", "sigma", "phi", "drift", "start", "slope"}

\* p = dist_curr.copy(), its numeric parameters and bounds updated with the
\* blend when the hour is blended
blended_params(dist_curr, dist_next, w) ==
    LET keys == {k \in BlendKeys : k \in DOMAIN dist_curr \/ k \in DOMAIN dist_next}
        either == "bounds" \in DOMAIN dist_curr \/ "bounds" \in DOMAIN dist_next
        bounds == [low |-> Min(Get(Get(dist_curr, "bounds", <<>>), "low", -Inf),
                               Get(Get(dist_next, "bounds", <<>>), "low", -Inf)),
                   high |-> Max(Get(Get(dist_curr, "bounds", <<>>), "high", Inf),
                                Get(Get(dist_next, "bounds", <<>>), "high", Inf))]
    IN  [k \in DOMAIN dist_curr \cup keys \cup (IF either THEN {"bounds"} ELSE {}) |->
            IF k \in keys
            THEN (w.curr * Get(dist_curr, k, 0) + w.next * Get(dist_next, k, 0)) \div w.th
            ELSE IF k = "bounds" THEN bounds
            ELSE dist_curr[k]]

\* for _ in range(steps): v = stateful_step(rng, v, p)
RECURSIVE stateful_steps(_, _, _, _)
stateful_steps(g, v, p, steps) ==
    IF steps = 0 THEN DistReturn(v, g, p)
    ELSE stateful_steps(stateful_step(g, v, p).rng, stateful_step(g, v, p).v, p,
                        steps - 1)

\* w_curr * v0 + w_next * v1 of two iid draws, or the first failure
blend_values(r0, r1, w) ==
    IF r0.kind = "raise" THEN r0
    ELSE IF r1.kind = "raise" THEN r1
    ELSE DistReturn((w.curr * r0.v + w.next * r1.v) \div w.th, r1.rng, r0.spec)

\* the branch on the kind of the current segment's distribution
draw_value(sch, g, smap, ts, seg_idx, w, steps) ==
    LET dist_curr == sch.segments[seg_idx].dist
        blended == w.next_idx # None /\ w.next > 0
        dist_next == sch.segments[w.next_idx].dist
        kind == lower(dist_curr.kind)
    IN  CASE kind = "empirical" -> empirical_at(smap, ts, g, dist_curr)
          [] kind = "linear" ->
               DistReturn(_clamp(Get(dist_curr, "start", 0)
                                 + Get(dist_curr, "slope", 0)
                                   * (ts - first_hour(sch, sch.segments[seg_idx].name)),
                                 Get(dist_curr, "bounds", NoBounds)), g, dist_curr)
          [] kind \in {"ar1", "rw"} ->
               stateful_steps(g, sch._last_value,
                              IF blended THEN blended_params(dist_curr, dist_next, w)
                              ELSE dist_curr,
                              steps)
          [] OTHER ->
               IF blended
               THEN blend_values(iid_sample(g, dist_curr),
                                 iid_sample(iid_sample(g, dist_curr).rng, dist_next), w)
               ELSE iid_sample(g, dist_curr)

\* the memory written at the end of the call; a raise leaves it as the reset
\* left it
remember(sch, r, ts, seg_idx) ==
    IF r.kind = "raise"
    THEN [kind |-> "raise", exc |-> r.exc, v |-> 0, label |-> "", sch |-> sch,
          rng |-> r.rng]
    ELSE [kind |-> "return", exc |-> "none", v |-> r.v,
          label |-> sch.segments[seg_idx].name,
          sch |-> [sch EXCEPT !._last_ts = ts, !._last_value = r.v,
                              !._last_seg_idx = seg_idx],
          rng |-> r.rng]

value_in_segment(sch, g, smap, ts, seg_idx) ==
    remember(reset_on_change(sch, seg_idx),
             draw_value(reset_on_change(sch, seg_idx), g, smap, ts, seg_idx,
                        _blend(sch, ts, seg_idx), steps_since(sch, ts)),
             ts, seg_idx)

\* ts is clamped into the index; the label at ts names the segment
value_at_hour(sch, g, smap, ts) ==
    value_in_segment(sch, g, smap, ts, segment_named(sch, sch.labels[ts + 1]))

value_at(sch, g, smap, ts) ==
    value_at_hour(sch, g, smap, Min(Max(ts, 0), Len(sch.labels) - 1))

-----------------------------------------------------------------------------
(* utils.random_partition and scenario: the segmentation of the horizon *)

_equalish_splits(total_days, n) ==
    LET base == total_days \div n
        rem == total_days % n
    IN  [i \in 1..n |-> base + (IF i - 1 < rem THEN 1 ELSE 0)]

\* Timestamp.normalize(): midnight of the timestamp's day
normalize(t) == (t \div HoursPerDay) * HoursPerDay

\* sorted(bps, key=timestamp): stable
RECURSIVE insert_sorted(_, _)
insert_sorted(x, s) ==
    IF s = <<>> THEN <<x>>
    ELSE IF s[Len(s)].ts <= x.ts THEN Append(s, x)
    ELSE Append(insert_sorted(x, SubSeq(s, 1, Len(s) - 1)), s[Len(s)])

RECURSIVE sorted(_)
sorted(s) ==
    IF s = <<>> THEN <<>>
    ELSE insert_sorted(s[Len(s)], sorted(SubSeq(s, 1, Len(s) - 1)))

\* the breakpoints as (timestamp, transition_hours), dates normalized
breakpoint_pairs(breakpoints) ==
    [i \in 1..Len(breakpoints) |->
        [ts |-> normalize(breakpoints[i].date),
         th |-> Get(breakpoints[i], "transition_hours", HoursPerDay)]]

\* the start is prepended, with the first transition_hours or the default,
\* when no breakpoint falls on it
with_start(start, inside) ==
    IF inside = <<>> \/ inside[1].ts # start
    THEN <<[ts |-> start, th |-> IF inside # <<>> THEN inside[1].th ELSE HoursPerDay]>>
         \o inside
    ELSE inside

\* max(1, round(days between consecutive timestamps)), the end appended; the
\* differences are whole days, so rounding them changes nothing
rounded_days(bps, end) ==
    [i \in 1..Len(bps) |->
        Max(1, ((IF i < Len(bps) THEN bps[i + 1].ts ELSE end) - bps[i].ts)
                   \div HoursPerDay)]

\* the last segment absorbs the difference to the horizon
adjust_last(seg_days, days) ==
    IF SumSeq(seg_days) # days
    THEN [seg_days EXCEPT ![Len(seg_days)] = @ + (days - SumSeq(seg_days))]
    ELSE seg_days

segmentation(seg_days, bps) ==
    [seg_days |-> seg_days, transition_hours |-> [i \in 1..Len(bps) |-> bps[i].th]]

\* the breakpoints inside [start, end), sorted, led by the start
breakpoints_within(start, end, breakpoints) ==
    with_start(start,
               sorted(SelectSeq(breakpoint_pairs(breakpoints),
                                LAMBDA b : start <= b.ts /\ b.ts < end)))

segments_between(bps, end, days) ==
    segmentation(adjust_last(rounded_days(bps, end), days), bps)

\* the variant without the adjustment of the last segment
segments_between_unadjusted(bps, end, days) ==
    segmentation(rounded_days(bps, end), bps)

_days_from_breakpoints_unadjusted(start_ts, days, breakpoints) ==
    segments_between_unadjusted(
        breakpoints_within(normalize(start_ts),
                           normalize(normalize(start_ts) + days * HoursPerDay),
                           breakpoints),
        normalize(normalize(start_ts) + days * HoursPerDay), days)

_days_from_breakpoints(start_ts, days, breakpoints) ==
    segments_between(
        breakpoints_within(normalize(start_ts),
                           normalize(normalize(start_ts) + days * HoursPerDay),
                           breakpoints),
        normalize(normalize(start_ts) + days * HoursPerDay), days)

\* rng.choice(pool, size, replace=False): one raw draw per pick
RECURSIVE choice(_, _, _)
choice(g, pool, size) ==
    IF size = 0 THEN [picked |-> {}, rng |-> g]
    ELSE LET i == (raw(g, 0) % Len(pool)) + 1
             rest == choice(advance(g, 1),
                            SubSeq(pool, 1, i - 1) \o SubSeq(pool, i + 1, Len(pool)),
                            size - 1)
         IN  [picked |-> {pool[i]} \cup rest.picked, rng |-> rest.rng]

\* np.sort of a set of numbers
RECURSIVE sort_set(_)
sort_set(S) ==
    IF S = {} THEN <<>>
    ELSE LET m == CHOOSE x \in S : \A y \in S : x <= y
         IN  <<m>> \o sort_set(S \ {m})

\* A faulty variant of random_partition: the cuts are chosen among
\* 1 .. remaining + N - 1, one position too far.
random_partition_cut_late(days, N, min_segment, g) ==
    LET remaining == days - N * min_segment
        top == remaining + N - 1
        c == choice(g, [i \in 1..top |-> i], N - 1)
        cuts == <<-1>> \o sort_set(c.picked) \o <<top>>
    IN  IF N * min_segment > days
        THEN [kind |-> "raise", exc |-> "AssertionError", rng |-> g]
        ELSE [kind |-> "return", exc |-> "none", rng |-> c.rng,
              parts |-> [i \in 1..N |-> min_segment + (cuts[i + 1] - cuts[i] - 1)]]

\* A faulty variant of random_partition: with N * min_segment > days it
\* gives equal parts and no error.
random_partition_unasserted(days, N, min_segment, g) ==
    [kind |-> "return", exc |-> "none", rng |-> g,
     parts |-> _equalish_splits(days, N)]

random_partition(days, N, min_segment, g) ==
    LET remaining == days - N * min_segment
        top == remaining + N - 1
        c == choice(g, [i \in 1..top |-> i - 1], N - 1)
        cuts == <<-1>> \o sort_set(c.picked) \o <<top>>
    IN  IF N * min_segment > days
        THEN [kind |-> "raise", exc |-> "AssertionError", rng |-> g]
        ELSE IF remaining = 0
        THEN [kind |-> "return", exc |-> "none", rng |-> g,
              parts |-> [i \in 1..N |-> min_segment]]
        ELSE [kind |-> "return", exc |-> "none", rng |-> c.rng,
              parts |-> [i \in 1..N |-> min_segment + (cuts[i + 1] - cuts[i] - 1)]]

\* the segment lengths are a random partition of the days, the transition
\* hours follow the policy; max_segment_days is passed in and never read
_generate_stochastic_breakpoints(days, n_regimes, min_segment_days, max_segment_days, transition_hours_config, g) ==
    LET part == random_partition(days, n_regimes, min_segment_days, g)
        th_type == Get(transition_hours_config, "type", "fixed")
        min_th == Get(transition_hours_config, "min", HoursPerDay)
        max_th == Get(transition_hours_config, "max", 14 * HoursPerDay)
    IN  IF part.kind = "raise" THEN part
        ELSE IF th_type = "fixed"
        THEN [kind |-> "return", exc |-> "none", rng |-> part.rng,
              seg_days |-> part.parts,
              transition_hours |->
                  [i \in 1..n_regimes |->
                      Get(transition_hours_config, "value", 7 * HoursPerDay)]]
        ELSE IF th_type = "range"
        THEN [kind |-> "return", exc |-> "none",
              rng |-> advance(part.rng, n_regimes),
              seg_days |-> part.parts,
              transition_hours |->
                  [i \in 1..n_regimes |->
                      min_th + (raw(part.rng, i - 1) % (max_th + 1 - min_th))]]
        ELSE [kind |-> "raise", exc |-> "ValueError", rng |-> part.rng]

\* the breakpoints of all regimes of a variable, in order; empty when none
RECURSIVE _extract_local_breakpoints(_)
_extract_local_breakpoints(regimes) ==
    IF regimes = <<>> THEN <<>>
    ELSE _extract_local_breakpoints(SubSeq(regimes, 1, Len(regimes) - 1))
         \o Get(regimes[Len(regimes)], "breakpoints", <<>>)

\* the global segmentation of modes global and hybrid: explicit breakpoints,
\* else the stochastic partition when enabled, else equal splits
global_segmentation(cfg, g) ==
    LET gs == Get(cfg.supply_regime_planner, "global_settings", <<>>)
        n_regimes == Get(gs, "n_regimes", 3)
        explicit_bps == Get(gs, "breakpoints", <<>>)
        sb == Get(gs, "stochastic_breakpoints", <<>>)
        from_bps == _days_from_breakpoints(cfg.start_ts, cfg.days, explicit_bps)
    IN  IF explicit_bps # <<>>
        THEN [kind |-> "return", exc |-> "none", rng |-> g,
              seg_days |-> from_bps.seg_days,
              transition_hours |-> from_bps.transition_hours]
        ELSE IF Get(sb, "enabled", FALSE)
        THEN _generate_stochastic_breakpoints(
                 cfg.days, n_regimes, Get(sb, "min_segment_days", 30),
                 Get(sb, "max_segment_days", 180),
                 Get(sb, "transition_hours",
                     [type |-> "fixed", value |-> 7 * HoursPerDay]), g)
        ELSE [kind |-> "return", exc |-> "none", rng |-> g,
              seg_days |-> _equalish_splits(cfg.days, n_regimes),
              transition_hours |-> [i \in 1..n_regimes |-> HoursPerDay]]

\* seg_defs from a distribution template: <varname>_regime_<i>
template_regimes(varname, template_dist, target_N) ==
    [i \in 1..target_N |->
        [name |-> varname \o "_regime_" \o ToString(i), dist |-> template_dist]]

\* (seg_defs * k)[:target_N] with k = ceil(target_N / len(seg_defs))
cycle_regimes(seg_defs, target_N) ==
    LET k == (target_N + Len(seg_defs) - 1) \div Len(seg_defs)
    IN  SubSeq(Tile(seg_defs, k), 1, target_N)

\* A faulty variant of align_to_global: the last regime is held for the
\* segments beyond the list, not the list repeated.
align_to_global_holding_last(seg_defs, target_N) ==
    [i \in 1..target_N |-> seg_defs[Min(i, Len(seg_defs))]]

\* replicate or trim the regimes to the global segments
align_to_global(seg_defs, target_N) ==
    IF Len(seg_defs) = 1 /\ target_N > 1 THEN Tile(seg_defs, target_N)
    ELSE IF Len(seg_defs) # target_N THEN cycle_regimes(seg_defs, target_N)
    ELSE seg_defs

build_segments(seg_defs, seg_days, transition_hours) ==
    [i \in 1..Len(seg_days) |->
        [name |-> seg_defs[i].name,
         days |-> seg_days[i],
         dist |-> seg_defs[i].dist,
         transition_hours |-> transition_hours[i]]]

\* one variable in mode global
build_global(var, seg, templates) ==
    IF Len(var.regimes) = 0 /\ var.name \notin DOMAIN templates
    THEN [kind |-> "raise", exc |-> "ValueError"]
    ELSE LET target_N == Len(seg.seg_days)
             seg_defs == IF Len(var.regimes) = 0
                         THEN template_regimes(var.name, templates[var.name], target_N)
                         ELSE var.regimes
         IN  RegimeSchedule(var.name,
                            build_segments(align_to_global(seg_defs, target_N),
                                           seg.seg_days, seg.transition_hours))

\* one variable in mode local_only
build_local(var, cfg) ==
    IF Len(var.regimes) = 0
    THEN [kind |-> "raise", exc |-> "ValueError"]
    ELSE LET local_breakpoints == _extract_local_breakpoints(var.regimes)
             from_bps == _days_from_breakpoints(cfg.start_ts, cfg.days,
                                                local_breakpoints)
             seg_days == IF local_breakpoints # <<>> THEN from_bps.seg_days
                         ELSE _equalish_splits(cfg.days, Len(var.regimes))
             transition_hours ==
                 IF local_breakpoints # <<>> THEN from_bps.transition_hours
                 ELSE [i \in 1..Len(var.regimes) |-> HoursPerDay]
             target_N == Len(seg_days)
             seg_defs == IF Len(var.regimes) # target_N
                         THEN cycle_regimes(var.regimes, target_N)
                         ELSE var.regimes
         IN  RegimeSchedule(var.name,
                            build_segments(seg_defs, seg_days, transition_hours))

\* A faulty variant of build_hybrid: the variable's own breakpoints are
\* ignored and the global segmentation is applied to it.
build_hybrid_global_only(var, cfg, seg, templates) ==
    build_global(var, seg, templates)

\* one variable in mode hybrid: full local override, partial override, or
\* the global settings with a template
build_hybrid(var, cfg, seg, templates) ==
    LET local_breakpoints == _extract_local_breakpoints(var.regimes)
        from_bps == _days_from_breakpoints(cfg.start_ts, cfg.days,
                                           local_breakpoints)
    IN  IF local_breakpoints # <<>>
        THEN LET target_N == Len(from_bps.seg_days)
                 seg_defs == IF Len(var.regimes) # target_N
                             THEN cycle_regimes(var.regimes, target_N)
                             ELSE var.regimes
             IN  RegimeSchedule(var.name,
                                build_segments(seg_defs, from_bps.seg_days,
                                               from_bps.transition_hours))
        ELSE IF Len(var.regimes) > 0
        THEN RegimeSchedule(var.name,
                            build_segments(align_to_global(var.regimes,
                                                           Len(seg.seg_days)),
                                           seg.seg_days, seg.transition_hours))
        ELSE IF var.name \in DOMAIN templates
        THEN RegimeSchedule(var.name,
                            build_segments(template_regimes(var.name,
                                                            templates[var.name],
                                                            Len(seg.seg_days)),
                                           seg.seg_days, seg.transition_hours))
        ELSE [kind |-> "raise", exc |-> "ValueError"]

\* the loop over the variables, in the mode's branch
build_each(cfg, mode, seg, templates) ==
    [i \in 1..Len(cfg.variables) |->
        CASE mode = "global" -> build_global(cfg.variables[i], seg, templates)
          [] mode = "local_only" -> build_local(cfg.variables[i], cfg)
          [] OTHER -> build_hybrid(cfg.variables[i], cfg, seg, templates)]

\* the dict of schedules, or the exception of the first variable that fails
collect(cfg, each, g) ==
    LET failed == {i \in 1..Len(each) : each[i].kind = "raise"}
        names == {cfg.variables[i].name : i \in 1..Len(each)}
    IN  IF failed # {}
        THEN [kind |-> "raise", rng |-> g,
              exc |-> each[CHOOSE i \in failed : \A j \in failed : i <= j].exc]
        ELSE [kind |-> "return", exc |-> "none", rng |-> g,
              schedules |->
                  [n \in names |->
                      each[CHOOSE i \in 1..Len(each) : cfg.variables[i].name = n].obj]]

build_with(cfg, mode, seg, templates, g) ==
    IF mode \notin {"global", "local_only", "hybrid"}
    THEN [kind |-> "raise", exc |-> "ValueError", rng |-> g]
    ELSE IF mode = "local_only"
    THEN collect(cfg, build_each(cfg, mode, seg, templates), g)
    ELSE IF seg.kind = "raise"
    THEN [kind |-> "raise", exc |-> seg.exc, rng |-> seg.rng]
    ELSE collect(cfg, build_each(cfg, mode, seg, templates), seg.rng)

\* build_schedules(start_ts, days, freq, seed, supply_regime_planner,
\* variables, series_map): the schedules by variable name and the generator
\* they all share, or the exception of the first failure.  The global
\* segmentation is computed, in modes global and hybrid, before the loop.
build_schedules(cfg) ==
    build_with(cfg,
               Get(cfg.supply_regime_planner, "mode", "hybrid"),
               global_segmentation(cfg, default_rng(cfg.seed)),
               Get(Get(cfg.supply_regime_planner, "global_settings", <<>>),
                   "distribution_templates", <<>>),
               default_rng(cfg.seed))

-----------------------------------------------------------------------------
(* supply: WindWeatherModel, SolarWeatherModel, SupplyCurve.__init__ *)

\* capacity factors are percentages; persistence (rho) is a percentage
WindWeatherModel(params, rng_seed) ==
    [base_cf |-> Get(params, "base_capacity_factor", 45),
     rho |-> Get(params, "persistence", 85),
     sigma |-> Get(params, "volatility", 15),
     _rng |-> default_rng(rng_seed),
     _cache |-> <<>>,
     _last_ts |-> None]

\* A faulty variant of new_capacity_factor: the day is not consulted, the
\* recursion runs on across midnight.
new_capacity_factor_across_days(w, key) ==
    IF w._last_ts = None
    THEN Min(Max(normal(raw(w._rng, 0), w.base_cf, 10), 0), 100)
    ELSE Min(Max(w.base_cf
                 + (w.rho * (Get(w._cache, w._last_ts, w.base_cf) - w.base_cf)) \div 100
                 + w.sigma * standard_normal(raw(w._rng, 0)), 0), 100)

\* the capacity factor of a new hour: a fresh draw around base_cf on a new
\* day, else one AR(1) step from the last cached hour; clipped to [0, 1]
new_capacity_factor(w, key) ==
    IF w._last_ts = None \/ w._last_ts \div HoursPerDay # key \div HoursPerDay
    THEN Min(Max(normal(raw(w._rng, 0), w.base_cf, 10), 0), 100)
    ELSE Min(Max(w.base_cf
                 + (w.rho * (Get(w._cache, w._last_ts, w.base_cf) - w.base_cf)) \div 100
                 + w.sigma * standard_normal(raw(w._rng, 0)), 0), 100)

\* A faulty variant of availability_at: the cache is not consulted, every
\* query computes a value.
availability_at_uncached(w, key) ==
    [model |-> [w EXCEPT !._cache = Put(@, key, new_capacity_factor(w, key)),
                         !._last_ts = key,
                         !._rng = advance(@, 1)],
     cf |-> new_capacity_factor(w, key)]

\* WindWeatherModel.availability_at: the model after the call and the value
availability_at(w, key) ==
    IF key \in DOMAIN w._cache
    THEN [model |-> w, cf |-> w._cache[key]]
    ELSE [model |-> [w EXCEPT !._cache = Put(@, key, new_capacity_factor(w, key)),
                              !._last_ts = key,
                              !._rng = advance(@, 1)],
          cf |-> new_capacity_factor(w, key)]

\* SolarWeatherModel.availability_at: peak_cf * sin(pi * x) between sunrise
\* and sunset, x the fraction of the daylight elapsed; on the lattice the
\* arch sin(pi * x) is 4 * x * (1 - x)
solar_availability_at(params, ts) ==
    LET hr == ts % HoursPerDay
        sunrise == Get(params, "sunrise_hour", 6)
        sunset == Get(params, "sunset_hour", 20)
        span == sunset - sunrise
    IN  IF sunrise <= hr /\ hr < sunset
        THEN (Get(params, "peak_capacity_factor", 35) * 4 * (hr - sunrise)
              * (span - (hr - sunrise))) \div (span * span)
        ELSE 0

\* SupplyCurve(config, rng_seed): the weather models exist in
\* weather_simulation mode only
SupplyCurve(cfg, rng_seed) ==
    [_mode |-> cfg.renewable_availability_mode,
     _wind_weather |->
         IF cfg.renewable_availability_mode = "weather_simulation"
         THEN WindWeatherModel(cfg.weather_simulation.wind.params, rng_seed)
         ELSE <<>>,
     _solar_weather |->
         IF cfg.renewable_availability_mode = "weather_simulation"
         THEN cfg.weather_simulation.solar.params
         ELSE <<>>]

-----------------------------------------------------------------------------
(* simulate.simulate_timeseries: one iteration of the loop over the hours *)

\* for name, sched in schedules.items(): v, lab = sched.value_at(ts)
\* acc carries the schedules, the shared generator, vals and labs
read_one(acc, n, r) ==
    IF r.kind = "raise"
    THEN [acc EXCEPT !.kind = "raise", !.exc = r.exc, !.rng = r.rng,
                     !.schedules = [@ EXCEPT ![n] = r.sch]]
    ELSE [acc EXCEPT !.rng = r.rng,
                     !.schedules = [@ EXCEPT ![n] = r.sch],
                     !.vals = Put(@, n, r.v),
                     !.labs = Put(@, n \o "_regime", r.label)]

RECURSIVE read_schedules(_, _, _, _, _)
read_schedules(acc, names, i, smap, ts) ==
    IF i > Len(names) \/ acc.kind = "raise" THEN acc
    ELSE read_schedules(
             read_one(acc, names[i],
                      value_at(acc.schedules[names[i]], acc.rng, smap, ts)),
             names, i + 1, smap, ts)

reduction_key(avail_key) ==
    CASE avail_key = "avail.nuclear" -> "nuclear_reduction"
      [] avail_key = "avail.coal" -> "coal_reduction"
      [] avail_key = "avail.gas" -> "gas_reduction"

\* A faulty variant of apply_outages: the months are not consulted, an
\* enabled outage derates every hour.
apply_outages_every_month(v, outages, month) ==
    IF DOMAIN outages = {} \/ ~Get(outages, "enabled", TRUE)
    THEN v
    ELSE [k \in DOMAIN v |->
             IF k \in {"avail.nuclear", "avail.coal", "avail.gas"}
             THEN Max(0, (v[k] * (100 - Get(outages, reduction_key(k), 0))) \div 100)
             ELSE v[k]]

\* planned outages: in an outage month the availability of nuclear, coal and
\* gas is cut by the technology's reduction (a percentage)
apply_outages(v, outages, month) ==
    IF DOMAIN outages = {} \/ ~Get(outages, "enabled", TRUE)
       \/ month \notin Get(outages, "months", {5, 6, 7, 8, 9})
    THEN v
    ELSE [k \in DOMAIN v |->
             IF k \in {"avail.nuclear", "avail.coal", "avail.gas"}
             THEN Max(0, (v[k] * (100 - Get(outages, reduction_key(k), 0))) \div 100)
             ELSE v[k]]

\* in weather_simulation mode the hour's wind and solar availability are
\* computed by the weather models and written into vals
weather_values(sup, v, ts, wind) ==
    IF sup._mode = "weather_simulation"
    THEN [supply |-> [sup EXCEPT !._wind_weather = wind.model],
          vals |-> Put(Put(v, "avail.wind", wind.cf), "avail.solar",
                       solar_availability_at(sup._solar_weather, ts))]
    ELSE [supply |-> sup, vals |-> v]

\* scipy's brentq is a deterministic procedure: of the outcomes the lattice
\* admits it gives one, the same one for the same arguments
solve(d, v, grid) == CHOOSE r \in find_equilibrium(d, v, grid) : TRUE

\* the hour's demand curve; with daily_seasonality and annual_seasonality
\* off, as in the configurations run here, the multiplier is 1.0
hour_demand(demand_cfg, ts) ==
    [inelastic |-> demand_cfg.inelastic,
     base_intercept |-> demand_cfg.base_intercept,
     slope |-> demand_cfg.slope,
     mult |-> 100]

\* A faulty variant of hour_row: the record is stamped with the hour before.
hour_row_stamped_late(ts, e, v, labs) ==
    [timestamp |-> Max(ts - 1, 0), price |-> e.p_star, q_cleared |-> e.q_star,
     Q |-> supply_breakdown(e.p_star \div 10, v), vals |-> v, labs |-> labs]

\* the record of the hour; the per-technology outputs are read at the price
\* unit at or below P*
hour_row(ts, e, v, labs) ==
    [timestamp |-> ts, price |-> e.p_star, q_cleared |-> e.q_star,
     Q |-> supply_breakdown(e.p_star \div 10, v), vals |-> v, labs |-> labs]

no_row == [timestamp |-> None]

\* A faulty variant of clear_hour: an hour that cannot be cleared is passed
\* over with an empty record.
clear_hour_skipping(cfg, ts, acc, wv, e) ==
    [kind |-> "return", exc |-> "none", schedules |-> acc.schedules,
     rng |-> acc.rng, supply |-> wv.supply,
     row |-> IF e.kind = "raise" THEN no_row ELSE hour_row(ts, e, wv.vals, acc.labs)]

\* the fuel check, the equilibrium and the row
clear_hour(cfg, ts, acc, wv, e) ==
    IF ~({"fuel.coal", "fuel.gas"} \subseteq DOMAIN wv.vals)
    THEN [kind |-> "raise", exc |-> "RuntimeError", schedules |-> acc.schedules,
          rng |-> acc.rng, supply |-> wv.supply, row |-> no_row]
    ELSE IF e.kind = "raise"
    THEN [kind |-> "raise", exc |-> e.exc, schedules |-> acc.schedules,
          rng |-> acc.rng, supply |-> wv.supply, row |-> no_row]
    ELSE [kind |-> "return", exc |-> "none", schedules |-> acc.schedules,
          rng |-> acc.rng, supply |-> wv.supply,
          row |-> hour_row(ts, e, wv.vals, acc.labs)]

with_weather(cfg, ts, acc, wv) ==
    clear_hour(cfg, ts, acc, wv,
               IF {"fuel.coal", "fuel.gas"} \subseteq DOMAIN wv.vals
               THEN solve(hour_demand(cfg.demand, ts), wv.vals, cfg.price_grid)
               ELSE Raise("none", "RuntimeError"))

with_outages(cfg, sup, ts, acc, v) ==
    with_weather(cfg, ts, acc,
                 weather_values(sup, v, ts,
                                IF sup._mode = "weather_simulation"
                                THEN availability_at(sup._wind_weather, ts)
                                ELSE <<>>))

after_reading(cfg, sup, ts, acc) ==
    IF acc.kind = "raise"
    THEN [kind |-> "raise", exc |-> acc.exc, schedules |-> acc.schedules,
          rng |-> acc.rng, supply |-> sup, row |-> no_row]
    ELSE with_outages(cfg, sup, ts, acc,
                      apply_outages(acc.vals, cfg.planned_outages, cfg.month))

\* one iteration of the loop of simulate_timeseries, at hour ts
simulate_hour(cfg, scheds, g, sup, smap, ts) ==
    after_reading(cfg, sup, ts,
                  read_schedules([kind |-> "return", exc |-> "none",
                                  schedules |-> scheds, rng |-> g,
                                  vals |-> <<>>, labs |-> <<>>],
                                 [i \in 1..Len(cfg.variables) |-> cfg.variables[i].name],
                                 1, smap, ts))

-----------------------------------------------------------------------------
(* Inputs of the solver specification *)

\* largest capacity of one technology, in units
MaxCap == 4
\* largest fuel price
MaxFuel == 2
\* the base intercept ranges over 0, 4, .., 4 * MaxInterceptSteps
MaxInterceptSteps == 3

PriceGrids == {<<-2, 0, 2, 4, 6>>, <<0, 2, 4>>}

InterceptValues == {4 * k : k \in 0..MaxInterceptSteps}

DemandConfigs ==
    [inelastic : BOOLEAN, base_intercept : InterceptValues, slope : {-1, -2},
     mult : {50, 100}]

\* coal: no capacity, capacity with no efficiency bound (infinite marginal
\* cost), capacity with efficiencies 0.5..1.0
CoalUnits ==
    {[cap |-> 0, eta_lb |-> 50], [cap |-> MaxCap, eta_lb |-> 0],
     [cap |-> MaxCap, eta_lb |-> 50]}

\* The snapshots: nuclear and wind are must-run with bids, coal and gas are
\* thermal; solar is absent (its capacity defaults to 0).
ValsSet ==
    { [k \in {"cap.nuclear", "avail.nuclear", "bid.nuclear.min", "bid.nuclear.max",
              "cap.wind", "avail.wind",
              "cap.coal", "avail.coal", "fuel.coal", "eta_lb.coal", "eta_ub.coal",
              "cap.gas", "avail.gas", "fuel.gas", "eta_lb.gas", "eta_ub.gas"} |->
         CASE k = "cap.nuclear"     -> cn
           [] k = "avail.nuclear"   -> 100
           [] k = "bid.nuclear.min" -> -2
           [] k = "bid.nuclear.max" -> 0
           [] k = "cap.wind"        -> 2
           [] k = "avail.wind"      -> aw
           [] k = "cap.coal"        -> coal.cap
           [] k = "avail.coal"      -> 100
           [] k = "fuel.coal"       -> 1
           [] k = "eta_lb.coal"     -> coal.eta_lb
           [] k = "eta_ub.coal"     -> 100
           [] k = "cap.gas"         -> cg
           [] k = "avail.gas"       -> ag
           [] k = "fuel.gas"        -> fg
           [] k = "eta_lb.gas"      -> 50
           [] k = "eta_ub.gas"      -> 100]
      : cn \in {0, 2}, aw \in {0, 100}, coal \in CoalUnits,
        cg \in 0..MaxCap, ag \in {50, 100}, fg \in 1..MaxFuel }

NoOutcome == [kind |-> "none", path |-> "none", q_star |-> 0, p_star |-> 0,
              exc |-> "none"]

InitEq ==
    /\ demand \in DemandConfigs
    /\ vals \in ValsSet
    /\ price_grid \in PriceGrids
    /\ eq = NoOutcome
    /\ DistUnused /\ SchedUnused /\ SimUnused
    /\ rng = Unused /\ series_map = Unused

\* one call of find_equilibrium on the hour's inputs
FindEquilibrium ==
    /\ eq.kind = "none"
    /\ eq' \in find_equilibrium(demand, vals, price_grid)
    /\ UNCHANGED <<demand, vals, price_grid, distVars, schedVars, simVars, rng,
                   series_map>>

NextEq == FindEquilibrium

SpecEq == InitEq /\ [][NextEq]_vars

-----------------------------------------------------------------------------
(* Properties of find_equilibrium, under SpecEq *)

p_floor == price_grid[1]

p_ceiling == price_grid[Len(price_grid)]

\* C1: on every return path the returned pair satisfies
\* price_grid[0] <= P* <= price_grid[-1] and Q* >= 0.
C1_ReturnedPairWithinGrid ==
    eq.kind = "return" =>
        /\ 10 * p_floor <= eq.p_star
        /\ eq.p_star <= 10 * p_ceiling
        /\ eq.q_star >= 0

\* C2: a failure of the root-finder (no sign change, or non-convergence) is
\* never propagated: the call returns a pair, in the inelastic branch and in
\* the elastic branch alike.
C2_RootFinderFailureNotPropagated == eq.kind # "raise"

\* C8: with inelastic demand, a call that returns gives Q* = D when the fixed
\* demand D does not exceed the supply at the top grid price (q_upper), and
\* exactly (q_upper, price_grid[-1]) when D exceeds it.
C8_InelasticClearedQuantity ==
    (demand.inelastic /\ eq.kind = "return") =>
        LET D       == q_at_price(0, demand)
            q_upper == supply_at(p_ceiling, vals)
        IN  IF D <= q_upper
            THEN eq.q_star = 10 * D
            ELSE eq.q_star = 10 * q_upper /\ eq.p_star = 10 * p_ceiling

\* C8's case: a positive fixed demand within q_upper, cleared by the
\* root-finder strictly inside the grid.
C8_Witness ==
    /\ demand.inelastic
    /\ eq.kind = "return"
    /\ eq.path = "inelastic_root"
    /\ q_at_price(0, demand) > 0
    /\ q_at_price(0, demand) < supply_at(p_ceiling, vals)
    /\ 10 * p_floor < eq.p_star
    /\ eq.p_star < 10 * p_ceiling

SurplusAtFloor ==
    1000 * supply_at(p_floor, vals) >= 999 * q_at_price(p_floor, demand)

ScarcityAtCeiling ==
    1000 * q_at_price(p_ceiling, demand) >= 1001 * supply_at(p_ceiling, vals)

\* C9: with elastic demand the boundary checks come first and in this order:
\* supply(p_min) >= 0.999 * demand(p_min) gives exactly (demand(p_min), p_min);
\* otherwise demand(p_max) >= 1.001 * supply(p_max) gives exactly
\* (supply(p_max), p_max); the root-finder is reached only when neither holds.
C9_ElasticBoundaryChecksFirst ==
    (~demand.inelastic /\ eq.kind # "none") =>
        /\ SurplusAtFloor =>
              /\ eq.kind = "return"
              /\ eq.q_star = 10 * q_at_price(p_floor, demand)
              /\ eq.p_star = 10 * p_floor
        /\ (~SurplusAtFloor /\ ScarcityAtCeiling) =>
              /\ eq.kind = "return"
              /\ eq.q_star = 10 * supply_at(p_ceiling, vals)
              /\ eq.p_star = 10 * p_ceiling
        /\ eq.path \in {"elastic_root", "elastic_fallback_ceiling",
                         "elastic_fallback_floor"} =>
              (~SurplusAtFloor /\ ~ScarcityAtCeiling)

\* C9's case: both boundary conditions hold at once and the floor wins, at a
\* grid whose floor and ceiling differ.
C9_Witness ==
    /\ ~demand.inelastic
    /\ eq.kind = "return"
    /\ SurplusAtFloor
    /\ ScarcityAtCeiling
    /\ eq.p_star = 10 * p_floor
    /\ p_floor < p_ceiling

\* the snapshot with the fuel price of tech raised by one
FuelRaised(v, tech) == [v EXCEPT !["fuel." \o tech] = @ + 1]

\* tech is the marginal supplier at the price p10 (in tenths): it is
\* partially dispatched, its output as _thermal_output computes it lying
\* strictly between zero and its available capacity
Marginal(v, tech, p10) ==
    LET cap == (Get(v, "cap." \o tech, 0) * Get(v, "avail." \o tech, 0)) \div 100
        q   == _thermal_output(p10 \div 10, v, tech)
    IN  0 < q /\ q < cap

Available(v, tech) ==
    (Get(v, "cap." \o tech, 0) * Get(v, "avail." \o tech, 0)) \div 100

\* the breakdown br at one price is within the limits of the snapshot v
BreakdownWithinLimits(br, v) ==
    /\ \A tech \in {"wind", "solar", "nuclear", "coal", "gas"} :
          0 <= br[tech] /\ br[tech] <= Max(0, Available(v, tech))
    /\ \A tech \in {"coal", "gas"} :
          (\/ Available(v, tech) <= 0
           \/ Get(v, "eta_lb." \o tech, 0) <= 0
           \/ Get(v, "eta_ub." \o tech, 0) <= 0) => br[tech] = 0

\* C30: at every price each technology's output in the breakdown of
\* supply_at is >= 0 and <= max(0, capacity * availability), the total is the
\* sum of the five outputs, and a thermal output is 0 whenever its capacity *
\* availability is <= 0 or one of its efficiency bounds is <= 0.
C30_BreakdownWithinCapacity ==
    \A p \in (p_floor - 1)..(p_ceiling + 1) :
        /\ BreakdownWithinLimits(supply_breakdown(p, vals), vals)
        /\ supply_at(p, vals)
              = supply_breakdown(p, vals).wind + supply_breakdown(p, vals).solar
                + supply_breakdown(p, vals).nuclear + supply_breakdown(p, vals).coal
                + supply_breakdown(p, vals).gas

\* a solved hour whose gas units are half available and partially
\* dispatched at the returned price, beside coal units with capacity and no
\* efficiency bound
C30_Witness ==
    /\ eq.kind = "return"
    /\ vals["avail.gas"] = 50
    /\ Marginal(vals, "gas", eq.p_star)
    /\ vals["eta_lb.coal"] = 0
    /\ vals["cap.coal"] > 0
    /\ supply_breakdown(p_ceiling, vals).coal = 0

-----------------------------------------------------------------------------
(* The distribution primitives called on their own *)

\* hours 0..MaxHour are queried
MaxHour == 3
\* a linear spec dict is stepped at most MaxStep times
MaxStep == 2

BoundsSet == {[low |-> 0, high |-> 2], [low |-> 1, high |-> 1]}

UnboundedSpecs ==
    {[kind |-> "const", v |-> 3],
     [kind |-> "uniform"],
     [kind |-> "AR1", mu |-> 1],
     [kind |-> "rw"],
     [kind |-> "linear", start |-> 1, slope |-> 1],
     [kind |-> "empirical", name |-> "load"],
     [kind |-> "empirical", name |-> "absent"],
     [kind |-> "empirical", name |-> "load", transform |-> "log"]}

BoundedSpecs ==
    {[kind |-> k, v |-> x, bounds |-> b] :
        k \in {"const", "Const"}, x \in {-1, 3}, b \in BoundsSet}
    \cup {[kind |-> "uniform", min |-> -2, max |-> 4, bounds |-> b] : b \in BoundsSet}
    \cup {[kind |-> "normal", mu |-> 1, sigma |-> sg, bounds |-> b] :
            sg \in {1, 3}, b \in BoundsSet}
    \cup {[kind |-> "lognormal", mu |-> 1, sigma |-> 1, bounds |-> b] : b \in BoundsSet}
    \cup {[kind |-> "beta", alpha |-> 2, beta |-> 2, low |-> -2, high |-> 6,
           bounds |-> b] : b \in BoundsSet}
    \cup {[kind |-> "truncnormal", mu |-> 1, sigma |-> 2, low |-> lo, high |-> 4,
           bounds |-> b] : lo \in {0, 4}, b \in BoundsSet}
    \cup {[kind |-> "ar1", mu |-> 1, sigma |-> 2, phi |-> 50, bounds |-> b] :
            b \in BoundsSet}
    \cup {[kind |-> "rw", drift |-> 1, sigma |-> 1, start |-> 0, bounds |-> b] :
            b \in BoundsSet}
    \cup {[kind |-> k, start |-> -1, slope |-> 2, bounds |-> b] :
            k \in {"linear", "LINEAR"}, b \in BoundsSet}
    \cup {[kind |-> "empirical", name |-> "load", transform |-> t, bounds |-> b] :
            t \in {"level", "pct_change", "diff"}, b \in BoundsSet}

DistSpecs == UnboundedSpecs \cup BoundedSpecs

\* one series, sampled at hours 1 and 3
SeriesMaps == {[load |-> sr] : sr \in [{1, 3} -> {0, 1, 5}]}

PrevValues == {None} \cup (-2..4)

NoCall == [fn |-> "none", kind |-> "none", v |-> 0, exc |-> "none"]

Called(fn, r) == [fn |-> fn, kind |-> r.kind, v |-> r.v, exc |-> r.exc]

InitDist ==
    /\ spec \in DistSpecs
    /\ \E seed \in Seeds : rng = default_rng(seed)
    /\ series_map \in SeriesMaps
    /\ out = NoCall
    /\ EqUnused /\ SchedUnused /\ SimUnused

IidSample ==
    LET r == iid_sample(rng, spec)
    IN  /\ out' = Called("iid_sample", r)
        /\ rng' = r.rng
        /\ spec' = r.spec
        /\ UNCHANGED <<series_map, eqVars, schedVars, simVars>>

StatefulStep ==
    \E prev \in PrevValues :
        LET r == stateful_step(rng, prev, spec)
        IN  /\ Get(spec, "_step", 0) < MaxStep
            /\ out' = Called("stateful_step", r)
            /\ rng' = r.rng
            /\ spec' = r.spec
            /\ UNCHANGED <<series_map, eqVars, schedVars, simVars>>

EmpiricalAt ==
    \E ts \in 0..MaxHour :
        LET r == empirical_at(series_map, ts, rng, spec)
        IN  /\ out' = Called("empirical_at", r)
            /\ rng' = r.rng
            /\ spec' = r.spec
            /\ UNCHANGED <<series_map, eqVars, schedVars, simVars>>

NextDist == IidSample \/ StatefulStep \/ EmpiricalAt

SpecDist == InitDist /\ [][NextDist]_vars

-----------------------------------------------------------------------------
(* Properties of the distribution primitives, under SpecDist *)

CarriesBounds(s) ==
    /\ "bounds" \in DOMAIN s
    /\ {"low", "high"} \subseteq DOMAIN s.bounds
    /\ s.bounds.low <= s.bounds.high

\* C7: every value returned by iid_sample, stateful_step or empirical_at for
\* a spec carrying bounds {low, high} with low <= high lies in [low, high],
\* whatever the kind and the previous value.
C7_ReturnedValueWithinBounds ==
    (out.kind = "return" /\ CarriesBounds(spec))
        => (spec.bounds.low <= out.v /\ out.v <= spec.bounds.high)

\* the values sampled by iid_sample and stateful_step are within the bounds
SampledValueWithinBounds ==
    (out.kind = "return" /\ CarriesBounds(spec) /\ out.fn # "empirical_at")
        => (spec.bounds.low <= out.v /\ out.v <= spec.bounds.high)

-----------------------------------------------------------------------------
(* build_schedules called on a configuration *)

\* the horizon is 1..MaxDays days
MaxDays == 3
\* n_regimes is 1..MaxRegimes
MaxRegimes == 3
\* an explicit breakpoint list has 1..MaxBreakpoints entries
MaxBreakpoints == 3

\* breakpoint dates: the day before the start, the start, one hour into the
\* first day, the second day and the third day
BreakpointDates == {-HoursPerDay, 0, 1, HoursPerDay, 2 * HoursPerDay}

BreakpointLists ==
    UNION {[1..n -> [date : BreakpointDates, transition_hours : {1}]] :
              n \in 1..MaxBreakpoints}

LocalBreakpointLists ==
    {<<[date |-> HoursPerDay]>>,
     <<[date |-> HoursPerDay, transition_hours |-> 1], [date |-> HoursPerDay]>>,
     <<[date |-> 2 * HoursPerDay], [date |-> -HoursPerDay]>>}

ConstDist == [kind |-> "const", v |-> 1]

RampDist == [kind |-> "linear", start |-> 0, slope |-> 1]

Templates == [n \in {"cap.gas"} |-> ConstDist]

TwoRegimes == <<[name |-> "low", dist |-> ConstDist],
                [name |-> "high", dist |-> RampDist]>>

OneRegime == <<[name |-> "flat", dist |-> ConstDist]>>

\* the `variables` of a configuration, in dict order
VariableSets ==
    {<<[name |-> "fuel.gas", regimes |-> TwoRegimes]>>,
     <<[name |-> "fuel.gas", regimes |-> OneRegime],
       [name |-> "cap.gas", regimes |-> <<>>]>>,
     <<[name |-> "fuel.gas", regimes |-> TwoRegimes],
       [name |-> "avail.gas", regimes |-> <<>>]>>}

LocalVariableSets(lists) ==
    {<<[name |-> "fuel.gas",
        regimes |-> <<[name |-> "low", dist |-> ConstDist, breakpoints |-> l],
                      [name |-> "high", dist |-> RampDist]>>]>> : l \in lists}

GlobalSettings ==
    {[n_regimes |-> n, distribution_templates |-> Templates] : n \in 1..MaxRegimes}
    \cup {[n_regimes |-> 3, breakpoints |-> l, distribution_templates |-> Templates] :
            l \in BreakpointLists}
    \cup {[n_regimes |-> n, distribution_templates |-> Templates,
           stochastic_breakpoints |->
               [enabled |-> TRUE, min_segment_days |-> ms, max_segment_days |-> 2,
                transition_hours |-> th]] :
            n \in 1..MaxRegimes, ms \in {1, 2},
            th \in {[type |-> "fixed", value |-> 1],
                    [type |-> "range", min |-> 0, max |-> 1]}}

Stochastic(planner) ==
    Get(Get(Get(planner, "global_settings", <<>>), "stochastic_breakpoints", <<>>),
        "enabled", FALSE)

Planners ==
    {[mode |-> m, global_settings |-> gs] :
        m \in {"global", "hybrid"}, gs \in GlobalSettings}
    \cup {[mode |-> "local_only"], [mode |-> "sync"]}

Explicit(planner) ==
    "breakpoints" \in DOMAIN Get(planner, "global_settings", <<>>)

\* the seed matters to the stochastic partition only, which is also asked
\* for a horizon of one more day; the variables' own
\* breakpoints are combined with the planners that have none
BuildConfigs ==
    {[start_ts |-> 0, days |-> d, seed |-> sd, supply_regime_planner |-> pl,
      variables |-> <<[name |-> "fuel.gas", regimes |-> OneRegime],
                      [name |-> "cap.gas", regimes |-> <<>>]>>] :
        d \in 1..(MaxDays + 1), sd \in Seeds, pl \in {p \in Planners : Stochastic(p)}}
    \cup {[start_ts |-> 0, days |-> d, seed |-> 0, supply_regime_planner |-> pl,
           variables |-> <<[name |-> "fuel.gas", regimes |-> TwoRegimes]>>] :
            d \in 1..MaxDays, pl \in {p \in Planners : Explicit(p)}}
    \cup {[start_ts |-> 0, days |-> d, seed |-> 0, supply_regime_planner |-> pl,
           variables |-> vs] :
            d \in 1..MaxDays,
            pl \in {p \in Planners : ~Stochastic(p) /\ ~Explicit(p)},
            vs \in VariableSets \cup LocalVariableSets(LocalBreakpointLists)}
    \cup {[start_ts |-> 0, days |-> d, seed |-> 0,
           supply_regime_planner |-> [mode |-> "local_only"], variables |-> vs] :
            d \in 1..MaxDays, vs \in LocalVariableSets(BreakpointLists)}

NotBuilt == [kind |-> "none", exc |-> "none"]

InitBuild ==
    /\ config \in BuildConfigs
    /\ schedules = <<>>
    /\ built = NotBuilt
    /\ ret = Unused
    /\ rng = Unused
    /\ series_map = <<>>
    /\ EqUnused /\ DistUnused /\ SimUnused

BuildSchedules ==
    LET r == build_schedules(config)
    IN  /\ built.kind = "none"
        /\ built' = [kind |-> r.kind, exc |-> r.exc]
        /\ schedules' = IF r.kind = "return" THEN r.schedules ELSE <<>>
        /\ rng' = r.rng
        /\ UNCHANGED <<config, ret, series_map, eqVars, distVars, simVars>>

NextBuild == BuildSchedules

SpecBuild == InitBuild /\ [][NextBuild]_vars

-----------------------------------------------------------------------------
(* Properties of build_schedules, under SpecBuild *)

SegmentDays(sch) == [i \in 1..Len(sch.segments) |-> sch.segments[i].days]

\* C5: every segment of every returned schedule has days >= 1 and the
\* segments tile the horizon (their day-counts add up to it), for any
\* breakpoint list and any n_regimes.
C5_SegmentsPositiveAndTiling ==
    built.kind = "return" =>
        \A n \in DOMAIN schedules :
            /\ \A i \in 1..Len(schedules[n].segments) : schedules[n].segments[i].days >= 1
            /\ SumSeq(SegmentDays(schedules[n])) = config.days

\* C6: in every mode and for every segmentation source the day-counts of
\* each returned schedule sum to `days` and its label index has
\* days * HoursPerDay hourly entries.
C6_DaysSumToHorizon ==
    built.kind = "return" =>
        \A n \in DOMAIN schedules :
            /\ SumSeq(SegmentDays(schedules[n])) = config.days
            /\ Len(schedules[n].labels) = config.days * HoursPerDay

\* a returned schedule whose last segment absorbed a surplus of rounded days
C6_Witness ==
    /\ built.kind = "return"
    /\ config.supply_regime_planner.mode = "hybrid"
    /\ \E n \in DOMAIN schedules :
          LET d == SegmentDays(schedules[n])
          IN  Len(d) >= 2 /\ d[1] = 1 /\ d[Len(d)] = 0

\* the global segmentation of the configuration
GlobalSegmentation == global_segmentation(config, default_rng(config.seed))

SegmentTransitions(sch) ==
    [i \in 1..Len(sch.segments) |-> sch.segments[i].transition_hours]

OnSegmentation(sch, seg) ==
    /\ SegmentDays(sch) = seg.seg_days
    /\ SegmentTransitions(sch) = seg.transition_hours

ModeOf(cfg) == Get(cfg.supply_regime_planner, "mode", "hybrid")

TemplatesOf(cfg) ==
    Get(Get(cfg.supply_regime_planner, "global_settings", <<>>),
        "distribution_templates", <<>>)

\* the three cases of a variable in mode hybrid
HybridVariable(var, sch, lb) ==
    IF lb # <<>>
    THEN OnSegmentation(sch, _days_from_breakpoints(config.start_ts, config.days, lb))
    ELSE IF Len(var.regimes) > 0
    THEN /\ OnSegmentation(sch, GlobalSegmentation)
         /\ \A j \in 1..Len(sch.segments) :
               \E k \in 1..Len(var.regimes) :
                   /\ sch.segments[j].name = var.regimes[k].name
                   /\ sch.segments[j].dist = var.regimes[k].dist
    ELSE /\ OnSegmentation(sch, GlobalSegmentation)
         /\ \A j \in 1..Len(sch.segments) :
               sch.segments[j].dist = TemplatesOf(config)[var.name]

\* C11: in mode hybrid, each variable independently: with local breakpoints
\* its segment lengths and transition widths are those of its own
\* breakpoints alone; else with local regimes it keeps its own distributions
\* on exactly the global lengths and widths; else it carries the template
\* registered under its name on the global segmentation.
C11_HybridPerVariable ==
    (built.kind = "return" /\ ModeOf(config) = "hybrid") =>
        \A i \in 1..Len(config.variables) :
            HybridVariable(config.variables[i],
                           schedules[config.variables[i].name],
                           _extract_local_breakpoints(config.variables[i].regimes))

\* a hybrid build in which a variable's own breakpoints gave it a
\* segmentation other than the global one
C11_Witness ==
    /\ built.kind = "return"
    /\ ModeOf(config) = "hybrid"
    /\ \E i \in 1..Len(config.variables) :
          /\ _extract_local_breakpoints(config.variables[i].regimes) # <<>>
          /\ SegmentDays(schedules[config.variables[i].name])
                 # GlobalSegmentation.seg_days

\* segment j (1-based) carries regime ((j - 1) mod k) + 1 of the k regimes
CyclicRegimes(sch, regimes) ==
    \A j \in 1..Len(sch.segments) :
        /\ sch.segments[j].name = regimes[((j - 1) % Len(regimes)) + 1].name
        /\ sch.segments[j].dist = regimes[((j - 1) % Len(regimes)) + 1].dist

\* C12: in mode global every variable's schedule has the day-lengths and
\* transition widths of the single global segmentation, and a variable with
\* k local regimes carries in segment i (0-based) the name and distribution
\* of regime i mod k.
C12_GlobalSegmentationForAll ==
    (built.kind = "return" /\ ModeOf(config) = "global") =>
        \A i \in 1..Len(config.variables) :
            /\ OnSegmentation(schedules[config.variables[i].name], GlobalSegmentation)
            /\ Len(config.variables[i].regimes) > 0 =>
                  CyclicRegimes(schedules[config.variables[i].name],
                                config.variables[i].regimes)

\* a global build in which two regimes were repeated over three or more
\* segments
C12_Witness ==
    /\ built.kind = "return"
    /\ ModeOf(config) = "global"
    /\ \E i \in 1..Len(config.variables) :
          /\ Len(config.variables[i].regimes) = 2
          /\ Len(schedules[config.variables[i].name].segments) >= 3
          /\ schedules[config.variables[i].name].segments[3].name
                 = config.variables[i].regimes[1].name

\* the stochastic breakpoint settings of the configuration
StochasticSettings ==
    Get(Get(config.supply_regime_planner, "global_settings", <<>>),
        "stochastic_breakpoints", <<>>)

\* the days can be split into n_regimes segments within the limits
LimitsFeasible ==
    LET n == Get(Get(config.supply_regime_planner, "global_settings", <<>>),
                 "n_regimes", 3)
    IN  /\ n * Get(StochasticSettings, "min_segment_days", 30) <= config.days
        /\ config.days <= n * Get(StochasticSettings, "max_segment_days", 180)

\* C29: with stochastic breakpoints enabled, every generated segment length
\* L satisfies min_segment_days <= L <= max_segment_days.  (Stated for the
\* settings that a segmentation within the limits exists for.)
C29_SegmentLengthWithinLimits ==
    (/\ built.kind = "return"
     /\ ModeOf(config) \in {"global", "hybrid"}
     /\ ~Explicit(config.supply_regime_planner)
     /\ Stochastic(config.supply_regime_planner)
     /\ LimitsFeasible) =>
        \A i \in 1..Len(GlobalSegmentation.seg_days) :
            /\ Get(StochasticSettings, "min_segment_days", 30)
                   <= GlobalSegmentation.seg_days[i]
            /\ GlobalSegmentation.seg_days[i]
                   <= Get(StochasticSettings, "max_segment_days", 180)

UnknownMode(cfg) == ModeOf(cfg) \notin {"local_only", "global", "hybrid"}

\* in mode global or hybrid a variable has no regimes and no template
NoRegimesNoTemplate(cfg) ==
    /\ ModeOf(cfg) \in {"global", "hybrid"}
    /\ \E i \in 1..Len(cfg.variables) :
          /\ Len(cfg.variables[i].regimes) = 0
          /\ cfg.variables[i].name \notin DOMAIN TemplatesOf(cfg)

\* in mode local_only a variable has no regimes
LocalWithoutRegimes(cfg) ==
    /\ ModeOf(cfg) = "local_only"
    /\ \E i \in 1..Len(cfg.variables) : Len(cfg.variables[i].regimes) = 0

\* the global segmentation is to be a stochastic partition (mode global or
\* hybrid, no explicit breakpoints, stochastic breakpoints enabled) and
\* n_regimes * min_segment_days > days
PartitionTooLarge(cfg) ==
    /\ ModeOf(cfg) \in {"global", "hybrid"}
    /\ ~Explicit(cfg.supply_regime_planner)
    /\ Stochastic(cfg.supply_regime_planner)
    /\ Get(cfg.supply_regime_planner.global_settings, "n_regimes", 3)
          * Get(cfg.supply_regime_planner.global_settings.stochastic_breakpoints,
                "min_segment_days", 30) > cfg.days

\* C16: build_schedules ends with an error and returns no schedules when
\* (a) the mode is none of local_only, global, hybrid, (b) in mode global or
\* hybrid a variable has neither regimes nor a template under its name,
\* (c) in mode local_only a variable has no regimes, or (d) a stochastic
\* partition is asked for with n_regimes * min_segment_days > days.
C16_ConfigurationErrorsAbort ==
    (/\ built.kind # "none"
     /\ \/ UnknownMode(config)
        \/ NoRegimesNoTemplate(config)
        \/ LocalWithoutRegimes(config)
        \/ PartitionTooLarge(config))
        => (built.kind = "raise" /\ schedules = <<>>)

\* a build that was to partition fewer days than n_regimes * min_segment_days
\* and ended with the assertion's error
C16_Witness ==
    /\ built.kind = "raise"
    /\ built.exc = "AssertionError"
    /\ PartitionTooLarge(config)
    /\ ~NoRegimesNoTemplate(config)

-----------------------------------------------------------------------------
(* The schedules of a built configuration, queried with value_at *)

Ar1Dist == [kind |-> "ar1", mu |-> 1, sigma |-> 1, phi |-> 50,
            bounds |-> [low |-> 0, high |-> 3]]

RwDist == [kind |-> "rw", drift |-> 0, sigma |-> 1, start |-> 1,
           bounds |-> [low |-> 0, high |-> 3]]

BoundedRampDist == [kind |-> "linear", start |-> 1, slope |-> 1,
                    bounds |-> [low |-> 0, high |-> 4]]

\* the regimes of the queried variable
RegimeLists ==
    {<<[name |-> "low", dist |-> Ar1Dist], [name |-> "high", dist |-> RampDist]>>,
     <<[name |-> "low", dist |-> BoundedRampDist], [name |-> "high", dist |-> RwDist]>>,
     <<[name |-> "low", dist |-> [kind |-> "uniform", min |-> 0, max |-> 3]],
       [name |-> "high", dist |-> [kind |-> "const", v |-> 2]]>>,
     <<[name |-> "low", dist |-> [kind |-> "empirical", name |-> "load"]],
       [name |-> "high", dist |-> [kind |-> "normal", mu |-> 1, sigma |-> 1]]>>,
     <<[name |-> "low", dist |-> ConstDist], [name |-> "high", dist |-> Ar1Dist]>>,
     <<[name |-> "flat", dist |-> RampDist]>>}

\* three global segments of one day each: equal splits with a transition of
\* a day, or explicit breakpoints with a transition of an hour
SchedPlanners ==
    {[mode |-> "hybrid",
      global_settings |-> [n_regimes |-> 3, distribution_templates |-> <<>>]],
     [mode |-> "global",
      global_settings |->
          [n_regimes |-> 3, distribution_templates |-> <<>>,
           breakpoints |-> <<[date |-> HoursPerDay, transition_hours |-> 1],
                             [date |-> 2 * HoursPerDay, transition_hours |-> 1]>>]]}

\* two regimes, each anchored at its own breakpoint date, a midnight of the
\* horizon; the dates differ
AnchoredRegimeLists ==
    {<<[name |-> "low", dist |-> [kind |-> "const", v |-> 1],
        breakpoints |-> <<[date |-> d1 * HoursPerDay, transition_hours |-> 0]>>],
       [name |-> "high", dist |-> [kind |-> "const", v |-> 3],
        breakpoints |-> <<[date |-> d2 * HoursPerDay, transition_hours |-> 0]>>]>> :
        d1 \in 0..2, d2 \in 0..2}
    \ {rl \in [1..2 -> [name : {"low", "high"}, dist : {[kind |-> "const", v |-> 1],
                                                       [kind |-> "const", v |-> 3]},
                        breakpoints : [1..1 -> [date : {d * HoursPerDay : d \in 0..2},
                                                transition_hours : {0}]]]] :
          rl[1].breakpoints = rl[2].breakpoints}

\* three regimes with names of their own (the first one bounded), on three
\* global segments whose two breakpoints carry a transition of an hour or of
\* a day each
ThreeRegimes ==
    <<[name |-> "low", dist |-> [kind |-> "const", v |-> 1,
                                 bounds |-> [low |-> 0, high |-> 2]]],
      [name |-> "mid", dist |-> [kind |-> "const", v |-> 3]],
      [name |-> "high", dist |-> [kind |-> "const", v |-> 5]]>>

TransitionPlanners ==
    {[mode |-> "global",
      global_settings |->
          [n_regimes |-> 3, distribution_templates |-> <<>>,
           breakpoints |-> <<[date |-> HoursPerDay, transition_hours |-> h1],
                             [date |-> 2 * HoursPerDay, transition_hours |-> h2]>>]] :
        h1 \in 1..HoursPerDay, h2 \in 1..HoursPerDay}

SchedConfigs ==
    {[start_ts |-> 0, days |-> 3, seed |-> sd, supply_regime_planner |-> pl,
      variables |-> <<[name |-> "fuel.gas", regimes |-> rl]>>] :
        sd \in Seeds, pl \in SchedPlanners, rl \in RegimeLists}
    \cup {[start_ts |-> 0, days |-> 3, seed |-> 0,
           supply_regime_planner |-> [mode |-> "local_only"],
           variables |-> <<[name |-> "fuel.gas", regimes |-> rl]>>] :
            rl \in AnchoredRegimeLists}
    \cup {[start_ts |-> 0, days |-> 3, seed |-> 0, supply_regime_planner |-> pl,
           variables |-> <<[name |-> "fuel.gas", regimes |-> ThreeRegimes]>>] :
            pl \in TransitionPlanners}

LoadSeries == [load |-> [h \in {1, 3} |-> IF h = 1 THEN 2 ELSE 5]]

\* queried timestamps: an hour before the start to an hour after the end
QueryHours == -1..(3 * HoursPerDay)

NoQuery == [name |-> "", ts |-> None, kind |-> "none", exc |-> "none", v |-> 0,
            label |-> "", last_ts |-> None, last_value |-> None, pos |-> 0]

InitSched ==
    /\ config \in SchedConfigs
    /\ \E r \in {build_schedules(config)} :
          /\ r.kind = "return"
          /\ schedules = r.schedules
          /\ rng = r.rng
          /\ built = [kind |-> r.kind, exc |-> r.exc]
    /\ series_map = LoadSeries
    /\ ret = NoQuery
    /\ EqUnused /\ DistUnused /\ SimUnused

\* one call schedules[n].value_at(ts); ret keeps what it returned and the
\* memory and generator position it started from
ValueAt ==
    \E n \in DOMAIN schedules, ts \in QueryHours :
        \E r \in {value_at(schedules[n], rng, series_map, ts)} :
            /\ schedules' = [schedules EXCEPT ![n] = r.sch]
            /\ rng' = r.rng
            /\ ret' = [name |-> n,
                       ts |-> Min(Max(ts, 0), Len(schedules[n].labels) - 1),
                       kind |-> r.kind, exc |-> r.exc, v |-> r.v, label |-> r.label,
                       last_ts |-> schedules[n]._last_ts,
                       last_value |-> schedules[n]._last_value,
                       pos |-> rng.pos]
            /\ UNCHANGED <<config, built, series_map, eqVars, distVars, simVars>>

NextSched == ValueAt

SpecSched == InitSched /\ [][NextSched]_vars

-----------------------------------------------------------------------------
(* Properties of value_at, under SpecSched *)

\* the first hour of the i-th segment, by the day-counts before it
segment_start(sch, i) ==
    SumSeq([j \in 1..(i - 1) |-> sch.segments[j].days]) * HoursPerDay

\* the segment whose days contain hour ts
segment_containing(sch, ts) ==
    CHOOSE i \in 1..Len(sch.segments) :
        /\ segment_start(sch, i) <= ts
        /\ ts < segment_start(sch, i) + sch.segments[i].days * HoursPerDay

\* the distribution of the segment that the last query fell in
QueriedDist ==
    schedules[ret.name].segments[segment_containing(schedules[ret.name], ret.ts)].dist

\* C3: for an active segment of kind ar1 or rw, a second value_at at the same
\* timestamp does not move last_value and does not consume rng draws.
C3_RepeatedQueryDoesNotAdvance ==
    (/\ ret.kind = "return"
     /\ lower(QueriedDist.kind) \in {"ar1", "rw"}
     /\ ret.last_ts = ret.ts)
        => (/\ schedules[ret.name]._last_value = ret.last_value
            /\ rng.pos = ret.pos)

\* C4: for a linear segment with start s and slope m, at whatever position,
\* value_at(ts) = clamp(s + m * h), h the hours from that segment's own
\* first hour to ts.
C4_LinearFromOwnSegmentStart ==
    (ret.kind = "return" /\ lower(QueriedDist.kind) = "linear")
        => ret.v = _clamp(Get(QueriedDist, "start", 0)
                          + Get(QueriedDist, "slope", 0)
                            * (ret.ts - segment_start(
                                   schedules[ret.name],
                                   segment_containing(schedules[ret.name], ret.ts))),
                          Get(QueriedDist, "bounds", NoBounds))

\* the regimes of the queried variable, as configured
QueriedRegimes ==
    config.variables[CHOOSE i \in 1..Len(config.variables) :
                         config.variables[i].name = ret.name].regimes

\* the date at which a regime is anchored
AnchorDate(regime) == normalize(regime.breakpoints[1].date)

\* regime k is the one whose anchor is the latest anchor at or before hour ts
LatestAnchored(regimes, k, ts) ==
    /\ AnchorDate(regimes[k]) <= ts
    /\ \A j \in 1..Len(regimes) :
          AnchorDate(regimes[j]) <= ts => AnchorDate(regimes[j]) <= AnchorDate(regimes[k])

\* C13: in mode local_only with per-regime breakpoints, the regime reported
\* by value_at at time T is the regime whose own breakpoint date is the
\* latest breakpoint date <= T, wherever in the horizon the dates lie.
C13_RegimeActiveFromOwnBreakpoint ==
    (ret.kind = "return" /\ ModeOf(config) = "local_only") =>
        \A k \in 1..Len(QueriedRegimes) :
            LatestAnchored(QueriedRegimes, k, ret.ts) =>
                ret.label = QueriedRegimes[k].name

\* the schedule the last query was made on
Queried == schedules[ret.name]

\* the value the last query produces when the memory holds no previous
\* value, from the generator position and the last tick it started from
SeededAfresh ==
    draw_value([Queried EXCEPT !._last_value = None],
               [rng EXCEPT !.pos = ret.pos], series_map, ret.ts,
               segment_named(Queried, Queried.labels[ret.ts + 1]),
               _blend(Queried, ret.ts,
                      segment_named(Queried, Queried.labels[ret.ts + 1])),
               Max(1, ret.ts - ret.last_ts)).v

\* C21: when two consecutive value_at queries fall in different segments (by
\* position in the segment list, also when both carry the same regime name),
\* the memory is reset first: the ar1/rw value returned in the new segment is
\* the one seeded from that segment's own mu/start, not from the last value.
C21_MemoryResetOnSegmentChange ==
    (/\ ret.kind = "return"
     /\ ret.last_ts # None
     /\ lower(QueriedDist.kind) \in {"ar1", "rw"}
     /\ segment_containing(Queried, ret.last_ts)
            # segment_containing(Queried, ret.ts))
        => ret.v = SeededAfresh

\* the weights value_at used in the last query
UsedBlend ==
    _blend(Queried, ret.ts, segment_named(Queried, Queried.labels[ret.ts + 1]))

\* the weights at hour ts of the segment at position i: hours_to_end counts
\* the hours from ts to the last hour of segment i itself
PositionalBlend(sch, ts, i) ==
    LET th == Get(sch.segments[i], "transition_hours", 0)
        hours_to_end ==
            segment_start(sch, i) + sch.segments[i].days * HoursPerDay - 1 - ts
    IN  IF th > 0 /\ i < Len(sch.segments) /\ 0 <= hours_to_end /\ hours_to_end < th
        THEN [curr |-> hours_to_end, next |-> th - hours_to_end, th |-> th,
              next_idx |-> i + 1]
        ELSE no_blend

\* C22: for ts inside the i-th segment by position, value_at blends toward
\* segment i+1 exactly when segment i has transition_hours > 0, is not the
\* last segment and 0 <= hours_to_end < transition_hours, hours_to_end counted
\* to the last hour of segment i itself, with w_next = 1 -
\* hours_to_end/transition_hours and w_curr = 1 - w_next; otherwise the
\* weights are (1, 0), so the final segment never blends.
C22_BlendByPosition ==
    ret.kind # "none" =>
        UsedBlend = PositionalBlend(Queried, ret.ts,
                                    segment_containing(Queried, ret.ts))

\* the explicit global breakpoints of the configuration
GlobalBreakpoints ==
    Get(Get(config.supply_regime_planner, "global_settings", <<>>),
        "breakpoints", <<>>)

\* hour ts lies in the window of breakpoint b: the b.transition_hours hours
\* before its date
InWindow(b, ts) ==
    /\ 0 < normalize(b.date)
    /\ normalize(b.date) - Get(b, "transition_hours", HoursPerDay) <= ts
    /\ ts < normalize(b.date)

DistinctNames(sch) ==
    \A i, j \in 1..Len(sch.segments) :
        i # j => sch.segments[i].name # sch.segments[j].name

\* C23: the blending window before a breakpoint {date: D, transition_hours:
\* H} has the width H of that breakpoint: a query is blended, with
\* transition width H, exactly in the H hours before D.  (Stated for
\* schedules whose segments carry distinct names.)
C23_WindowOfOwnBreakpoint ==
    (/\ ret.kind # "none"
     /\ DistinctNames(Queried)
     /\ GlobalBreakpoints # <<>>)
        => /\ \A k \in 1..Len(GlobalBreakpoints) :
                 InWindow(GlobalBreakpoints[k], ret.ts) =>
                     /\ UsedBlend.next_idx # None
                     /\ UsedBlend.th = GlobalBreakpoints[k].transition_hours
           /\ UsedBlend.next_idx # None =>
                 \E k \in 1..Len(GlobalBreakpoints) :
                     InWindow(GlobalBreakpoints[k], ret.ts)

\* C24: every value returned by value_at while the active segment's
\* distribution carries bounds {low, high} lies within [low, high], for every
\* kind and also inside transition windows.
C24_ValueWithinSegmentBounds ==
    (ret.kind = "return" /\ "bounds" \in DOMAIN QueriedDist) =>
        /\ QueriedDist.bounds.low <= ret.v
        /\ ret.v <= QueriedDist.bounds.high

-----------------------------------------------------------------------------
(* Two runs of one configuration: build_schedules, then simulate_timeseries *)

RunDays == 3

UniformDist == [kind |-> "uniform", min |-> 0, max |-> 3]

Const(x) == <<[name |-> "flat", dist |-> [kind |-> "const", v |-> x]]>>

\* the `variables` of the run, in dict order; cap.gas has no regimes and
\* takes its distribution template
RunVariables ==
    <<[name |-> "fuel.gas",
       regimes |-> <<[name |-> "low", dist |-> Ar1Dist],
                     [name |-> "high", dist |-> UniformDist]>>],
      [name |-> "fuel.coal", regimes |-> Const(1)],
      [name |-> "cap.gas", regimes |-> <<>>],
      [name |-> "avail.gas", regimes |-> Const(100)],
      [name |-> "eta_lb.gas", regimes |-> Const(50)],
      [name |-> "eta_ub.gas", regimes |-> Const(100)],
      [name |-> "cap.wind", regimes |-> Const(MaxCap)],
      [name |-> "avail.wind",
       regimes |-> <<[name |-> "calm",
                      dist |-> [kind |-> "uniform", min |-> 0, max |-> 100]]>>]>>

\* two global segments by a stochastic partition of the days
RunPlanner ==
    [mode |-> "hybrid",
     global_settings |->
         [n_regimes |-> 2,
          distribution_templates |-> [n \in {"cap.gas"} |-> [kind |-> "const", v |-> MaxCap]],
          stochastic_breakpoints |->
              [enabled |-> TRUE, min_segment_days |-> 1,
               transition_hours |-> [type |-> "fixed", value |-> 1]]]]

WeatherSimulation ==
    [wind |-> [params |-> [base_capacity_factor |-> 45, persistence |-> 85,
                           volatility |-> 15]],
     solar |-> [params |-> [sunrise_hour |-> 0, sunset_hour |-> HoursPerDay,
                            peak_capacity_factor |-> 35]]]

\* inelastic demand, and elastic demand with a high and with a low intercept
RunDemands ==
    {[inelastic |-> i, base_intercept |-> 4, slope |-> -2,
      daily_seasonality |-> FALSE, annual_seasonality |-> FALSE] : i \in BOOLEAN}
    \cup {[inelastic |-> FALSE, base_intercept |-> 2, slope |-> -2,
            daily_seasonality |-> FALSE, annual_seasonality |-> FALSE]}

PlannedOutage ==
    [enabled |-> TRUE, months |-> {5, 6, 7, 8, 9}, gas_reduction |-> 50]

\* planned outages that do not apply to the month of the run: disabled, or
\* planned for another month
IdleOutages ==
    {[enabled |-> FALSE, months |-> {5, 6, 7, 8, 9}, gas_reduction |-> 50],
     [enabled |-> TRUE, months |-> {1}, gas_reduction |-> 50]}

\* the variables without one of the two fuels
RECURSIVE Without(_, _)
Without(variables, name) ==
    IF variables = <<>> THEN <<>>
    ELSE IF variables[1].name = name THEN Without(Tail(variables), name)
    ELSE <<variables[1]>> \o Without(Tail(variables), name)

\* a call of simulate_timeseries on schedules that lack a fuel
FuelLessConfigs ==
    {[start_ts |-> 0, month |-> 6, days |-> RunDays, seed |-> 1,
      supply_regime_planner |-> RunPlanner, variables |-> Without(RunVariables, f),
      renewable_availability_mode |-> m, weather_simulation |-> WeatherSimulation,
      demand |-> [inelastic |-> TRUE, base_intercept |-> 4, slope |-> -2,
                  daily_seasonality |-> FALSE, annual_seasonality |-> FALSE],
      price_grid |-> <<0, 2, 4>>, planned_outages |-> <<>>] :
        f \in {"fuel.coal", "fuel.gas"}, m \in {"direct", "weather_simulation"}}

\* outages are planned in the runs with elastic demand
RunConfigs ==
    {[start_ts |-> 0, month |-> 6, days |-> RunDays, seed |-> sd,
      supply_regime_planner |-> RunPlanner, variables |-> RunVariables,
      renewable_availability_mode |-> m, weather_simulation |-> WeatherSimulation,
      demand |-> d, price_grid |-> <<0, 2, 4>>,
      planned_outages |-> IF d.inelastic THEN <<>> ELSE PlannedOutage] :
        sd \in Seeds, m \in {"direct", "weather_simulation"}, d \in RunDemands}
    \cup {[start_ts |-> 0, month |-> 6, days |-> RunDays, seed |-> 1,
           supply_regime_planner |-> RunPlanner, variables |-> RunVariables,
           renewable_availability_mode |-> m, weather_simulation |-> WeatherSimulation,
           demand |-> [inelastic |-> FALSE, base_intercept |-> 4, slope |-> -2,
                       daily_seasonality |-> FALSE, annual_seasonality |-> FALSE],
           price_grid |-> <<0, 2, 4>>, planned_outages |-> po] :
            m \in {"direct", "weather_simulation"}, po \in IdleOutages}

NoRun == [rows |-> <<>>, status |-> "none"]

\* ret is the outcome of the last iteration of the loop
NoHour == [ts |-> None, kind |-> "none", exc |-> "none"]

InitRun ==
    /\ config \in RunConfigs \cup FuelLessConfigs
    /\ run = 1
    /\ status = "idle"
    /\ hour = 0
    /\ rows = <<>>
    /\ first_run = NoRun
    /\ schedules = <<>>
    /\ supply = <<>>
    /\ rng = <<>>
    /\ series_map = <<>>
    /\ built = NotBuilt
    /\ ret = NoHour
    /\ EqUnused /\ DistUnused

\* runner: build_schedules(seed = cfg.seed), then the head of
\* simulate_timeseries, which constructs the supply curve with the same seed
StartRun ==
    /\ status = "idle"
    /\ \E r \in {build_schedules(config)} :
          /\ built' = [kind |-> r.kind, exc |-> r.exc]
          /\ schedules' = r.schedules
          /\ rng' = r.rng
          /\ status' = IF r.kind = "return" THEN "running" ELSE "raised"
    /\ supply' = SupplyCurve(config, config.seed)
    /\ hour' = 0
    /\ rows' = <<>>
    /\ ret' = NoHour
    /\ UNCHANGED <<config, series_map, run, first_run, eqVars, distVars>>

\* one iteration of the loop over range(hours)
SimulateHour ==
    /\ status = "running"
    /\ hour < config.days * HoursPerDay
    /\ \E r \in {simulate_hour(config, schedules, rng, supply, series_map, hour)} :
          /\ schedules' = r.schedules
          /\ rng' = r.rng
          /\ supply' = r.supply
          /\ ret' = [ts |-> hour, kind |-> r.kind, exc |-> r.exc]
          /\ IF r.kind = "raise"
             THEN /\ status' = "raised"
                  /\ UNCHANGED <<rows, hour>>
             ELSE /\ rows' = Append(rows, r.row)
                  /\ hour' = hour + 1
                  /\ status' = IF hour + 1 = config.days * HoursPerDay
                                THEN "done" ELSE "running"
    /\ UNCHANGED <<config, series_map, built, run, first_run, eqVars, distVars>>

\* the same configuration is run a second time, with fresh objects
Rerun ==
    /\ run = 1
    /\ status \in {"done", "raised"}
    /\ first_run' = [rows |-> rows, status |-> status]
    /\ run' = 2
    /\ status' = "idle"
    /\ hour' = 0
    /\ rows' = <<>>
    /\ schedules' = <<>>
    /\ supply' = <<>>
    /\ rng' = <<>>
    /\ built' = NotBuilt
    /\ ret' = NoHour
    /\ UNCHANGED <<config, series_map, eqVars, distVars>>

NextRun == StartRun \/ SimulateHour \/ Rerun

SpecRun == InitRun /\ [][NextRun]_vars

MissingFuel(cfg) ==
    ~({"fuel.coal", "fuel.gas"}
         \subseteq {cfg.variables[i].name : i \in 1..Len(cfg.variables)})

\* C17: when fuel.coal or fuel.gas is absent from the hour's values,
\* simulate_timeseries ends with an error at that hour, before it solves
\* the equilibrium, and gives no records: no hour is passed over or cleared.
C17_MissingFuelAborts ==
    (MissingFuel(config) /\ status # "idle") =>
        /\ built.kind = "return"
        /\ status \in {"running", "raised"}
        /\ hour = 0
        /\ rows = <<>>
        /\ status = "raised" => (ret.ts = 0 /\ ret.exc = "RuntimeError")

\* a run without fuel.coal, in weather_simulation mode, ended at its first
\* hour
C17_Witness ==
    /\ MissingFuel(config)
    /\ config.renewable_availability_mode = "weather_simulation"
    /\ status = "raised"
    /\ ret.exc = "RuntimeError"
    /\ "fuel.gas" \in DOMAIN schedules

\* C18: simulate_timeseries takes the hours h = 0 .. hours - 1 in increasing
\* order, queries every schedule at each hour and emits one record per
\* hour: after h hours there are h records, the i-th stamped start_ts + i - 1
\* with a value and a regime name of every schedule, every schedule was last
\* queried at the hour just done, and the finished run has `hours` records.
C18_OneRecordPerHourInOrder ==
    (built.kind = "return" /\ status \in {"running", "done"}) =>
        /\ Len(rows) = hour
        /\ \A i \in 1..Len(rows) :
              /\ rows[i].timestamp = config.start_ts + i - 1
              /\ DOMAIN schedules \subseteq DOMAIN rows[i].vals
              /\ \A n \in DOMAIN schedules : (n \o "_regime") \in DOMAIN rows[i].labs
        /\ hour > 0 => \A n \in DOMAIN schedules : schedules[n]._last_ts = hour - 1
        /\ hour = 0 => \A n \in DOMAIN schedules : schedules[n]._last_ts = None
        /\ status = "done" <=> hour = config.days * HoursPerDay

\* a finished first run with a record for every hour of the horizon
C18_Witness ==
    /\ run = 1
    /\ status = "done"
    /\ Len(rows) = RunDays * HoursPerDay
    /\ rows[Len(rows)].timestamp = RunDays * HoursPerDay - 1
    /\ config.renewable_availability_mode = "direct"

\* the planned outages derate the hours of this run
OutagesApply ==
    /\ DOMAIN config.planned_outages # {}
    /\ Get(config.planned_outages, "enabled", TRUE)
    /\ config.month \in Get(config.planned_outages, "months", {5, 6, 7, 8, 9})

\* the value sampled from schedule n at the hour just done
Sampled(n) == schedules[n]._last_value

\* the drivers the weather models write in weather_simulation mode
FromWeather ==
    IF config.renewable_availability_mode = "weather_simulation"
    THEN {"avail.wind", "avail.solar"} ELSE {}

OutputsOf(row) ==
    row.Q.wind + row.Q.solar + row.Q.nuclear + row.Q.coal + row.Q.gas

\* the record was cleared at the price floor or at the price ceiling
AtGridEnd(row) ==
    row.price \in {10 * config.price_grid[1],
                   10 * config.price_grid[Len(config.price_grid)]}

\* C25: in every record the five per-technology outputs sum to the record's
\* cleared quantity q_cleared, including the hours cleared at the price floor
\* or ceiling.  (Stated for the records of elastic demand cleared at the
\* floor or ceiling, where the price is a whole unit.)
C25_OutputsSumToCleared ==
    \A i \in 1..Len(rows) :
        (~config.demand.inelastic /\ AtGridEnd(rows[i]))
            => 10 * OutputsOf(rows[i]) = rows[i].q_cleared

-----------------------------------------------------------------------------
(* A WindWeatherModel queried at hours of two days, in any order *)

\* the number of queries made of one model
MaxQueries == 4

WindSeeds == {0, 1, 5}

WindParams ==
    {[base_capacity_factor |-> 45, persistence |-> 85, volatility |-> 15],
     [base_capacity_factor |-> 90, persistence |-> 50, volatility |-> 20]}

NoAvailability == [ts |-> None, cf |-> 0, before |-> <<>>]

\* supply is the model, rows the value first returned at each hour, hour the
\* number of queries made
InitWind ==
    /\ config \in [params : WindParams, seed : WindSeeds]
    /\ supply = WindWeatherModel(config.params, config.seed)
    /\ ret = NoAvailability
    /\ rows = <<>>
    /\ hour = 0
    /\ status = Unused /\ run = Unused /\ first_run = Unused
    /\ schedules = Unused /\ built = Unused
    /\ rng = Unused /\ series_map = Unused
    /\ EqUnused /\ DistUnused

\* one call model.availability_at(ts)
AvailabilityAt ==
    /\ hour < MaxQueries
    /\ \E ts \in 0..MaxHour :
          \E r \in {availability_at(supply, ts)} :
              /\ supply' = r.model
              /\ ret' = [ts |-> ts, cf |-> r.cf, before |-> supply]
              /\ rows' = IF ts \in DOMAIN rows THEN rows ELSE Put(rows, ts, r.cf)
    /\ hour' = hour + 1
    /\ UNCHANGED <<config, schedules, built, rng, series_map, status, run,
                   first_run, eqVars, distVars>>

NextWind == AvailabilityAt

SpecWind == InitWind /\ [][NextWind]_vars

\* C14: after the first query at an hour, every further query at that hour,
\* whatever was queried in between, returns the value of the first and
\* leaves the model as it was: no draw taken, cache, last timestamp and
\* generator unchanged.
C14_RepeatedQueryIdempotent ==
    ret.ts # None =>
        /\ ret.cf = rows[ret.ts]
        /\ ret.ts \in DOMAIN ret.before._cache => supply = ret.before

\* an hour queried again after a later hour was queried, by a model whose
\* generator has moved
C14_Witness ==
    /\ ret.ts # None
    /\ ret.ts \in DOMAIN ret.before._cache
    /\ ret.before._last_ts > ret.ts
    /\ supply._rng.pos # 0
    /\ \E h \in DOMAIN rows : rows[h] # rows[ret.ts]

\* the last query was the next hour of an hourly pass: the first query, at
\* hour 0, or the hour after the one queried before it
NextHourly ==
    /\ ret.ts # None
    /\ ret.ts \notin DOMAIN ret.before._cache
    /\ \/ ret.ts = 0 /\ ret.before._last_ts = None
       \/ ret.ts > 0 /\ ret.before._last_ts = ret.ts - 1

\* clip(x, 0.0, 1.0), in percent
Clip01(x) == Min(Max(x, 0), 100)

\* C28: under hourly querying in increasing order the model takes a fresh
\* draw around the base capacity factor at the first hour of each day,
\* whatever the previous day's last value, follows the AR(1) recursion from
\* the previous hour's value at every other hour, and every value returned
\* lies in [0, 1].
C28_FreshDrawEachDay ==
    NextHourly =>
        /\ 0 <= ret.cf /\ ret.cf <= 100
        /\ ret.ts % HoursPerDay = 0 =>
              ret.cf = Clip01(normal(raw(ret.before._rng, 0), ret.before.base_cf, 10))
        /\ ret.ts % HoursPerDay # 0 =>
              ret.cf = Clip01(ret.before.base_cf
                              + (ret.before.rho
                                 * (ret.before._cache[ret.ts - 1] - ret.before.base_cf))
                                \div 100
                              + ret.before.sigma
                                * standard_normal(raw(ret.before._rng, 0)))

\* the first hour of the second day, reached hour by hour, after a day that
\* ended away from the base capacity factor
C28_Witness ==
    /\ NextHourly
    /\ ret.ts = HoursPerDay
    /\ hour = HoursPerDay + 1
    /\ ret.before._cache[ret.ts - 1] # ret.before.base_cf
    /\ ret.cf # ret.before._cache[ret.ts - 1]

\* the cache of a model queried once at each of the hours, in the order given
RECURSIVE QueriedInTurn(_, _)
QueriedInTurn(w, hours) ==
    IF hours = <<>> THEN w._cache
    ELSE QueriedInTurn(availability_at(w, Head(hours)).model, Tail(hours))

\* the snapshot of an hour whose wind availability is cf: wind ahead of gas
WindVals(cf) ==
    [k \in {"cap.wind", "avail.wind", "cap.gas", "avail.gas", "fuel.gas",
             "eta_lb.gas", "eta_ub.gas", "fuel.coal"} |->
        CASE k = "cap.wind" -> MaxCap
          [] k = "avail.wind" -> cf
          [] k = "cap.gas" -> MaxCap
          [] k = "avail.gas" -> 100
          [] k = "fuel.gas" -> 2
          [] k = "eta_lb.gas" -> 50
          [] k = "eta_ub.gas" -> 100
          [] k = "fuel.coal" -> 1]

\* the outcomes of find_equilibrium at an hour whose supply curve reads the
\* wind availability cf from the weather model
SolvedWith(cf) ==
    find_equilibrium([inelastic |-> TRUE, base_intercept |-> 4, slope |-> -2,
                      mult |-> 100],
                     WindVals(cf), <<0, 2, 4>>)

\* C26: find_equilibrium is a pure function of (ts, demand, vals,
\* price_grid): solving distinct hours in any order, or an hour repeatedly,
\* gives each hour the (Q*, P*) of solving the hours once in increasing
\* order, also when the wind availability comes from the weather model.
C26_SolveIndependentOfOrder ==
    \A h \in DOMAIN rows :
        SolvedWith(rows[h])
            = SolvedWith(QueriedInTurn(WindWeatherModel(config.params, config.seed),
                                       sort_set(DOMAIN rows))[h])

-----------------------------------------------------------------------------
(* Two call sequences of stateful_step on one linear spec *)

Consumers == {1, 2}

LinearSpecs ==
    {[kind |-> "linear", start |-> st, slope |-> sl] : st \in {0, 1}, sl \in {1, 2}}
    \cup {[kind |-> "linear", start |-> 1, slope |-> 1,
           bounds |-> [low |-> 0, high |-> 2]]}

\* rows[c] is the sequence of consumer c: the value it got last (None before
\* its first call and after a reset) and the number k of its calls since
InitShared ==
    /\ spec \in LinearSpecs
    /\ rng = default_rng(0)
    /\ rows = [c \in Consumers |-> [prev |-> None, k |-> 0]]
    /\ out = NoCall
    /\ series_map = Unused
    /\ EqUnused /\ SchedUnused
    /\ supply = Unused /\ hour = Unused /\ status = Unused
    /\ run = Unused /\ first_run = Unused

\* consumer c calls stateful_step(rng, prev, spec) with its own prev, on the
\* spec dict that both hold
SharedStep ==
    \E c \in Consumers :
        /\ rows[c].k < MaxStep
        /\ Get(spec, "_step", 0) < 2 * MaxStep
        /\ \E r \in {stateful_step(rng, rows[c].prev, spec)} :
              /\ spec' = r.spec
              /\ rng' = r.rng
              /\ rows' = [rows EXCEPT ![c] =
                             [prev |-> r.v,
                              k |-> IF rows[c].prev = None THEN 0 ELSE rows[c].k + 1]]
              /\ out' = [fn |-> "stateful_step", kind |-> r.kind, exc |-> r.exc,
                         v |-> r.v, consumer |-> c,
                         k |-> IF rows[c].prev = None THEN 0 ELSE rows[c].k + 1]
        /\ UNCHANGED <<series_map, eqVars, schedVars, supply, hour, status, run,
                       first_run>>

\* consumer c starts its sequence again: its next call passes prev = None
SharedReset ==
    \E c \in Consumers :
        /\ rows[c].prev # None
        /\ rows' = [rows EXCEPT ![c] = [prev |-> None, k |-> 0]]
        /\ UNCHANGED <<spec, rng, out, series_map, eqVars, schedVars, supply, hour,
                       status, run, first_run>>

NextShared == SharedStep \/ SharedReset

SpecShared == InitShared /\ [][NextShared]_vars

\* C15: each of two call sequences on one linear spec, interleaved in any
\* way, gets start + slope * k (clamped) at its own k-th call since its own
\* reset, whatever the other sequence called.
C15_StepCounterPrivate ==
    out.kind = "return" =>
        out.v = _clamp(Get(spec, "start", 0) + Get(spec, "slope", 0) * out.k,
                       Get(spec, "bounds", NoBounds))

-----------------------------------------------------------------------------
(* random_partition called on its own *)

\* the arguments with N * min_segment <= days
PartitionArgs ==
    {a \in [days : 1..(MaxDays + 2), N : 1..MaxRegimes, min_segment : 1..MaxDays,
             seed : Seeds] : a.N * a.min_segment <= a.days}

NoPartition == [kind |-> "none", exc |-> "none"]

InitPartition ==
    /\ config \in PartitionArgs
    /\ rng = default_rng(config.seed)
    /\ ret = NoPartition
    /\ schedules = Unused /\ built = Unused /\ series_map = Unused
    /\ EqUnused /\ DistUnused /\ SimUnused

RandomPartition ==
    /\ ret.kind = "none"
    /\ \E r \in {random_partition(config.days, config.N, config.min_segment, rng)} :
          /\ ret' = r
          /\ rng' = r.rng
    /\ UNCHANGED <<config, schedules, built, series_map, eqVars, distVars, simVars>>

NextPartition == RandomPartition

SpecPartition == InitPartition /\ [][NextPartition]_vars

\* C19: for days, N >= 1 and min_segment >= 1 with N * min_segment <= days,
\* and every outcome of the generator, random_partition returns exactly N
\* integers, each >= min_segment, that sum to days.
C19_PartitionOfDays ==
    ret.kind # "none" =>
        /\ ret.kind = "return"
        /\ Len(ret.parts) = config.N
        /\ \A i \in 1..config.N : ret.parts[i] >= config.min_segment
        /\ SumSeq(ret.parts) = config.days

\* a partition into three parts of different lengths, drawn with two cuts
C19_Witness ==
    /\ ret.kind = "return"
    /\ config.N = 3
    /\ ret.parts[1] # ret.parts[2]
    /\ ret.parts[2] # ret.parts[3]
    /\ ret.parts[3] > config.min_segment

====
